---------------------------- MODULE Spec2Model ----------------------------
(***************************************************************************)
(* A model of the weak-entropy replication tooling: the per-engine         *)
(* generators and key extraction of tests/validate_parity.py, the parity   *)
(* run, the membership filter utility, the hit classification of           *)
(* scripts/check_mnemonics.py and the kernel generator.                    *)
(*                                                                         *)
(* Python integers are unbounded while model-checker integers are 32-bit,  *)
(* so every value wider than 31 bits is kept as a little-endian sequence   *)
(* of bytes and the arithmetic on it is done byte by byte.                 *)
(***************************************************************************)
EXTENDS Integers, Sequences, FiniteSets, TLC

VARIABLES
    \* key extraction (tests/validate_parity.py, derive_privkey_python)
    prng,       \* the registers of the generator object built last
    calls,      \* the key extractions done so far: [ts, engine, key]
    \* the parity run (tests/validate_parity.py, main)
    par_pc,     \* "idle", "loop", "summary" or "exited"
    total,      \* len(vectors)
    idx,        \* the vectors visited so far
    passed,
    failed,
    streak,     \* the mismatches in a row up to the vector compared last
    eligible,   \* the vectors visited that name 'randstorm' and one of the four engines
    early_stop, \* the loop was left through break
    summary,    \* the summary was printed
    exit_status,\* "none" while running, then the status of the process
    \* the membership filter utility (python-bloom-filter-util/bloom-util.py)
    corpus_file, \* the address corpus: [exists, lines]
    filter_file, \* the persisted filter: [exists, blob]
    requested,   \* the capacity and error rate the caller of the build wants
    last_check,  \* the last check_address call: [asked, address, answer]
    csv_file,    \* the bulk input: [exists, lines]
    c_pc,        \* check_address_csv: "idle", "rows", "done" or "crashed"
    c_skip,      \* its skip_lines argument
    c_filter,    \* the filter it unpickled
    c_pos,       \* the rows the reader has handed out
    c_i,         \* i
    c_found,     \* found
    c_left,      \* skip_lines_remaining
    c_queried,   \* the positions of the rows whose address was looked up
    c_hits,      \* the hits printed: <<position, text>>
    c_error,     \* the exception that ended the call, "" if none
    full_run,    \* what the completed run with skip_lines = 0 did
    \* the scan of candidates against the targets (scripts/check_mnemonics.py)
    scan_pc,        \* main: "idle", "scanning", "crashed" or "closed"
    s_read,         \* the lines of standard input read so far
    count,
    log_unverified, \* the lines of HITS_UNVERIFIED.txt
    log_confirmed,  \* the lines of HITS_CONFIRMED.txt
    log_empty,      \* the lines of HITS_EMPTY.txt
    s_before,       \* the three logs as they were before the line read last
    s_last,         \* the line read last and what was done for its hits
    \* the kernel generator (scripts/generate_ripemd160_wgsl.py)
    g_pc,     \* "idle", "header", "rounds", "done" or "failed"
    g_table,  \* which table `rounds` is in this run
    g_k,      \* the group the loop is at
    g_out,    \* the lines printed so far in this run
    g_lines,  \* `lines` of the generate_round call made last
    g_error,  \* the exception that ended the run, "" if none
    g_runs,   \* the runs that are over: [table, status, out]
    \* one generator object, built and stepped (tests/validate_parity.py)
    p_pc,     \* "idle" or "ready"
    p_engine, \* the engine whose generator was built
    p_seed,   \* the seed it was built from
    p_regs,   \* its registers
    p_prev,   \* its registers before the next_u16 call made last
    p_outs,   \* what its next_u16 calls returned, in order
    t_regs,   \* the registers of the generator it is compared with
    t_outs,   \* and what that one returned
    \* one call of derive_privkey_python, statement by statement
    d_pc,     \* "idle", "fill", "whiten", "cipher", "schedule", "stream", "done"
    d_engine, \* engine_type
    d_ts,     \* ts
    d_prng,   \* the registers of prng
    d_outs,   \* what prng.next_u16() returned, in order
    d_pool,   \* pool
    d_raw,    \* pool as the fill loop left it
    d_s,      \* arc4.s
    d_i,      \* arc4.i
    d_j,      \* arc4.j
    d_n,      \* the steps the loop of ARC4.__init__ has made
    d_sj,     \* j of ARC4.__init__
    d_kidx,   \* the index of the key byte its last step read
    d_key,    \* the bytes next_byte has returned
    \* the 256-bit transform run by its two scripts (scans/randstorm)
    h_pc,     \* "idle", "call", "schedule", "rounds", "add", "print", "done", "exited"
    h_script, \* the script that was started
    h_import, \* check_lib is still inside `import sim_sha`
    h_state,  \* state
    h_m,      \* m, as far as it is filled
    h_v,      \* a, b, c, d, e, f, g, h
    h_i,      \* i of the loop that is running
    h_lines,  \* the lines printed so far
    \* the timestamp-hash derivation (scripts/generate_test_vectors_option_a.py)
    v_pc,      \* "idle", "draw" or "hash"
    v_ts,      \* timestamp_ms
    v_seq,     \* sequence
    v_seed,    \* prng.seed
    v_entropy, \* entropy
    v_k,       \* the turns the loop of generate_entropy has made
    v_seeds,   \* prng.seed after each of its turns
    v_done,    \* the derivations that are over: [ts, seq, seeds, entropy, key]
    \* one cipher object, built from a key and stepped (tests/validate_parity.py)
    k_pc,      \* "idle" or "ready"
    k_key,     \* key
    k_s,       \* self.s
    k_i,       \* self.i
    k_j,       \* self.j
    k_stream,  \* what next_byte has returned, in order
    \* the balance monitor (scripts/check_testnet_balance.py, main)
    m_pc,      \* "idle", "loop" or "returned"
    m_checks,  \* checks
    m_funded,  \* funded
    m_balance, \* balance: <<>> for None, <<n>> for the number n
    m_sleeps,  \* the calls of time.sleep made so far
    m_slept,   \* the value of checks at the last call of time.sleep
    m_writes,  \* the times the status file has been written
    m_result,  \* what main returned: <<>> before it returns
    \* the word indices of one entropy (scripts/test_cpu_reference.py)
    e_pc,      \* "idle", "hashed", "indices", "raised" or "returned"
    e_entropy, \* entropy, 16 bytes
    e_checksum, \* checksum
    e_indices, \* indices
    e_error,   \* the exception that ended the function, "" if none
    \* the comparison of two files (validate_gpu.py, compare_with_gpu_output)
    x_pc,      \* "idle", "reference", "gpu", "compare", "report", "raised" or "returned"
    x_ref,     \* the lines of ref_file
    x_gpu,     \* the lines of gpu_file
    x_pos,     \* the lines read of the file being read, or the addresses compared
    x_ref_addresses, \* ref_addresses, its entries in insertion order
    x_gpu_addresses, \* gpu_addresses
    x_matches, \* matches
    x_mismatches, \* mismatches
    x_error,   \* the exception that left the function, "" if none
    x_result   \* what the function returned: <<>> before it returns

derive_vars == <<prng, calls>>
parity_vars == <<par_pc, total, idx, passed, failed, streak, eligible, early_stop,
                 summary, exit_status>>
build_vars == <<corpus_file, filter_file, requested>>
check_vars == <<last_check>>
csv_vars == <<csv_file, c_pc, c_skip, c_filter, c_pos, c_i, c_found, c_left, c_queried,
              c_hits, c_error, full_run>>
bloom_vars == <<build_vars, check_vars, csv_vars>>
log_vars == <<log_unverified, log_confirmed, log_empty>>
scan_vars == <<scan_pc, s_read, count, log_vars, s_before, s_last>>
gen_vars == <<g_pc, g_table, g_k, g_out, g_lines, g_error, g_runs>>
prng_vars == <<p_pc, p_engine, p_seed, p_regs, p_prev, p_outs, t_regs, t_outs>>
pipe_vars == <<d_pc, d_engine, d_ts, d_prng, d_outs, d_pool, d_raw, d_s, d_i, d_j, d_n,
               d_sj, d_kidx, d_key>>
sha_vars == <<h_pc, h_script, h_import, h_state, h_m, h_v, h_i, h_lines>>
vec_vars == <<v_pc, v_ts, v_seq, v_seed, v_entropy, v_k, v_seeds, v_done>>
cipher_vars == <<k_pc, k_key, k_s, k_i, k_j, k_stream>>
monitor_vars == <<m_pc, m_checks, m_funded, m_balance, m_sleeps, m_slept, m_writes,
                  m_result>>
indices_vars == <<e_pc, e_entropy, e_checksum, e_indices, e_error>>
compare_vars == <<x_pc, x_ref, x_gpu, x_pos, x_ref_addresses, x_gpu_addresses, x_matches,
                  x_mismatches, x_error, x_result>>
vars == <<derive_vars, parity_vars, bloom_vars, scan_vars, gen_vars, prng_vars, pipe_vars,
          sha_vars, vec_vars, cipher_vars, monitor_vars, indices_vars, compare_vars>>

\* what the steps of one program leave alone: the state of the other programs
not_derive == <<parity_vars, bloom_vars, scan_vars, gen_vars, prng_vars, pipe_vars,
                sha_vars, vec_vars, cipher_vars,
                monitor_vars, indices_vars, compare_vars>>
not_parity == <<derive_vars, bloom_vars, scan_vars, gen_vars, prng_vars, pipe_vars,
                sha_vars, vec_vars, cipher_vars,
                monitor_vars, indices_vars, compare_vars>>
not_bloom == <<derive_vars, parity_vars, scan_vars, gen_vars, prng_vars, pipe_vars,
               sha_vars, vec_vars, cipher_vars,
                monitor_vars, indices_vars, compare_vars>>
not_scan == <<derive_vars, parity_vars, bloom_vars, gen_vars, prng_vars, pipe_vars,
              sha_vars, vec_vars, cipher_vars,
                monitor_vars, indices_vars, compare_vars>>
not_gen == <<derive_vars, parity_vars, bloom_vars, scan_vars, prng_vars, pipe_vars,
             sha_vars, vec_vars, cipher_vars,
                monitor_vars, indices_vars, compare_vars>>
not_prng == <<derive_vars, parity_vars, bloom_vars, scan_vars, gen_vars, pipe_vars,
              sha_vars, vec_vars, cipher_vars,
                monitor_vars, indices_vars, compare_vars>>
not_pipe == <<derive_vars, parity_vars, bloom_vars, scan_vars, gen_vars, prng_vars,
              sha_vars, vec_vars, cipher_vars,
                monitor_vars, indices_vars, compare_vars>>
not_sha == <<derive_vars, parity_vars, bloom_vars, scan_vars, gen_vars, prng_vars,
             pipe_vars, vec_vars, cipher_vars,
                monitor_vars, indices_vars, compare_vars>>
not_vec == <<derive_vars, parity_vars, bloom_vars, scan_vars, gen_vars, prng_vars,
             pipe_vars, sha_vars, cipher_vars,
                monitor_vars, indices_vars, compare_vars>>
not_cipher == <<derive_vars, parity_vars, bloom_vars, scan_vars, gen_vars, prng_vars,
                pipe_vars, sha_vars, vec_vars,
                monitor_vars, indices_vars, compare_vars>>
not_monitor == <<derive_vars, parity_vars, bloom_vars, scan_vars, gen_vars, prng_vars,
                 pipe_vars, sha_vars, vec_vars, cipher_vars, indices_vars, compare_vars>>
not_indices == <<derive_vars, parity_vars, bloom_vars, scan_vars, gen_vars, prng_vars,
                 pipe_vars, sha_vars, vec_vars, cipher_vars, monitor_vars, compare_vars>>
not_compare == <<derive_vars, parity_vars, bloom_vars, scan_vars, gen_vars, prng_vars,
                 pipe_vars, sha_vars, vec_vars, cipher_vars, monitor_vars, indices_vars>>

-----------------------------------------------------------------------------
(* Bounds of the model *)

NumTimestamps == 2
MaxCalls == 3
MaxVectors == 8
MaxCorpus == 2          \* lines of the address corpus
MaxRows == 3            \* lines of the bulk input
BloomSlices == 2        \* hash functions of the model's filter
BloomBitsPerSlice == 3  \* bits each of them addresses
MaxLines == 2           \* lines of standard input the scan reads
MaxRuns == 3            \* runs of the kernel generator
MaxSteps == 4           \* next_u16 calls on one generator object
MaxSequence == 1        \* the largest sequence index of a timestamp-hash derivation
MaxDerivations == 2     \* timestamp-hash derivations in one behaviour
MaxStream == 260        \* next_byte calls on one cipher object

-----------------------------------------------------------------------------
(* Bit and byte arithmetic *)

RECURSIVE ToBytes(_, _)
\* v (0 <= v < 2^31) as n little-endian bytes, i.e. v & (2^(8n) - 1)
ToBytes(v, n) ==
    IF n = 0 THEN <<>> ELSE <<v % 256>> \o ToBytes(v \div 256, n - 1)

\* bytes lo..hi (1-based) of a byte sequence, absent bytes reading as 0
Slice(x, lo, hi) == [k \in 1..(hi - lo + 1) |->
                        IF lo + k - 1 <= Len(x) THEN x[lo + k - 1] ELSE 0]

\* the 16-bit value held in bytes k, k+1
U16At(x, k) == x[k] + 256 * x[k + 1]

RECURSIVE BitXor(_, _)
BitXor(a, b) ==
    IF a = 0 THEN b
    ELSE IF b = 0 THEN a
    ELSE (((a % 2) + (b % 2)) % 2) + 2 * BitXor(a \div 2, b \div 2)

RECURSIVE BitOr(_, _)
BitOr(a, b) ==
    IF a = 0 THEN b
    ELSE IF b = 0 THEN a
    ELSE (IF (a % 2) + (b % 2) > 0 THEN 1 ELSE 0) + 2 * BitOr(a \div 2, b \div 2)

RECURSIVE ColumnFrom(_, _, _, _)
ColumnFrom(x, m, k, i) ==
    IF i > Len(x) THEN 0
    ELSE (IF k + 2 - i >= 1 /\ k + 2 - i <= Len(m) THEN x[i] * m[k + 2 - i] ELSE 0)
         + ColumnFrom(x, m, k, i + 1)

\* the k-th column (0-based) of the schoolbook product x * m
Column(x, m, k) == ColumnFrom(x, m, k, 1)

RECURSIVE MulAddFrom(_, _, _, _, _, _)
MulAddFrom(x, m, c, n, k, carry) ==
    IF k = n THEN <<>>
    ELSE LET t == Column(x, m, k) + (IF k + 1 <= Len(c) THEN c[k + 1] ELSE 0) + carry
         IN  <<t % 256>> \o MulAddFrom(x, m, c, n, k + 1, t \div 256)

\* (x * m + c) & (2^(8n) - 1) on byte sequences
MulAddMask(x, m, c, n) == MulAddFrom(x, m, c, n, 0, 0)

RECURSIVE AddFrom(_, _, _, _, _)
AddFrom(x, y, n, k, carry) ==
    IF k > n THEN <<>>
    ELSE LET t == (IF k <= Len(x) THEN x[k] ELSE 0)
                  + (IF k <= Len(y) THEN y[k] ELSE 0) + carry
         IN  <<t % 256>> \o AddFrom(x, y, n, k + 1, t \div 256)

\* (x + y) & (2^(8n) - 1) on byte sequences
AddMask(x, y, n) == AddFrom(x, y, n, 1, 0)

IsZero(x) == \A k \in 1..Len(x) : x[k] = 0

-----------------------------------------------------------------------------
(* The timestamps the model draws from, as 8 little-endian bytes *)

BaseTimestamp == <<64, 84, 115, 149, 67, 1, 0, 0>>     \* 1389781800000

\* 0, then 1389781800000 + 100 * (k - 2)
Timestamp(k) ==
    IF k = 1 THEN ToBytes(0, 8)
    ELSE AddMask(BaseTimestamp, ToBytes(100 * (k - 2), 8), 8)

Timestamps == {Timestamp(k) : k \in 1..NumTimestamps}

Engines == {"v8", "java", "ie", "safari-win"}
OtherEngines == {"safari"}

-----------------------------------------------------------------------------
(* The generators *)

V8Mult1 == 18000
V8Mult2 == 30903
JavaMult == <<109, 230, 236, 222, 5>>      \* 0x5DEECE66D
JavaAdd == <<11>>                          \* 0xB
CrtMult == <<253, 67, 3>>                  \* 214013
CrtAdd == <<195, 158, 38>>                 \* 2531011

\* a slip: the registers are taken from the seed as they are
V8InitUnguarded(seed) == [s1 |-> Slice(seed, 1, 4), s2 |-> Slice(seed, 5, 8)]

\* V8Mwc1616.__init__
V8Init(seed) ==
    LET s1 == Slice(seed, 1, 4)
        s2 == Slice(seed, 5, 8)
    IN  [s1 |-> IF IsZero(s1) THEN ToBytes(1, 4) ELSE s1,
         s2 |-> IF IsZero(s2) THEN ToBytes(1, 4) ELSE s2]

\* a slip: the carry held in the high half of the register is dropped
V8StepNoCarry(s, mult) == ToBytes(mult * U16At(s, 1), 4)

\* one register update: (mult * (s & 0xFFFF) + (s >> 16)) & 0xFFFFFFFF
V8Step(s, mult) == ToBytes(mult * U16At(s, 1) + U16At(s, 3), 4)

\* V8Mwc1616.next_u16: <<value, new registers>>
V8Next(st) ==
    LET s1 == V8Step(st.s1, V8Mult1)
        s2 == V8Step(st.s2, V8Mult2)
        combined == AddMask(<<0, 0>> \o s1, s2, 4)
    IN  <<U16At(combined, 3), [s1 |-> s1, s2 |-> s2]>>

\* a slip: the seed is scrambled with the multiplier, as java.util.Random does
JavaInitScrambled(seed) ==
    [state |-> [k \in 1..6 |-> BitXor(Slice(seed, 1, 6)[k], Slice(JavaMult, 1, 6)[k])]]

\* JavaLcg.__init__
JavaInit(seed) == [state |-> Slice(seed, 1, 6)]

\* JavaLcg.next_u16
JavaNext(st) ==
    LET state == MulAddMask(st.state, JavaMult, JavaAdd, 6)
    IN  <<U16At(state, 3), [state |-> state]>>

\* SafariCrt.__init__
CrtInit(seed) == [state |-> Slice(seed, 1, 4)]

\* a slip: both halves are taken from one step of the state
CrtNextOneStep(st) ==
    LET state1 == MulAddMask(st.state, CrtMult, CrtAdd, 4)
        r1 == U16At(state1, 3) % 32768
    IN  <<(BitOr(r1 * 32768, r1) \div 16384) % 65536, [state |-> state1]>>

\* SafariCrt.next_u16
CrtNext(st) ==
    LET state1 == MulAddMask(st.state, CrtMult, CrtAdd, 4)
        r1 == U16At(state1, 3) % 32768
        state2 == MulAddMask(state1, CrtMult, CrtAdd, 4)
        r2 == U16At(state2, 3) % 32768
        combined == BitOr(r1 * 32768, r2)
    IN  <<(combined \div 16384) % 65536, [state |-> state2]>>

\* a slip: the generator object of the call before is kept when the engine is
\* the same, instead of a new one being built from the timestamp
NewPrngKept(ts, engine_type) ==
    IF prng.engine = engine_type THEN prng.regs
    ELSE IF engine_type = "v8" THEN V8Init(ts)
    ELSE IF engine_type \in {"java", "ie"} THEN JavaInit(ts)
    ELSE CrtInit(ts)

\* the generator object derive_privkey_python builds for an engine
NewPrng(ts, engine_type) ==
    IF engine_type = "v8" THEN V8Init(ts)
    ELSE IF engine_type \in {"java", "ie"} THEN JavaInit(ts)
    ELSE CrtInit(ts)

next_u16(engine_type, st) ==
    IF engine_type = "v8" THEN V8Next(st)
    ELSE IF engine_type \in {"java", "ie"} THEN JavaNext(st)
    ELSE CrtNext(st)

-----------------------------------------------------------------------------
(* Pool filling, whitening and the stream cipher *)

PoolLen == 256
KeyLen == 32

\* a slip: the low byte of the value is appended before the high byte
FillStepLowFirst(engine_type, ps) ==
    IF Len(ps[1]) >= PoolLen THEN ps
    ELSE LET r == next_u16(engine_type, ps[2])
             val == r[1]
             p1 == Append(ps[1], val % 256)
             p2 == IF Len(p1) < PoolLen THEN Append(p1, (val \div 256) % 256) ELSE p1
         IN  <<p2, r[2]>>

\* one turn of the while loop of derive_privkey_python on <<pool, registers>>;
\* once the pool is full the loop has ended and nothing changes
FillStep(engine_type, ps) ==
    IF Len(ps[1]) >= PoolLen THEN ps
    ELSE LET r == next_u16(engine_type, ps[2])
             val == r[1]
             p1 == Append(ps[1], (val \div 256) % 256)
             p2 == IF Len(p1) < PoolLen THEN Append(p1, val % 256) ELSE p1
         IN  <<p2, r[2]>>

RECURSIVE FillTurns(_, _, _)
\* n turns of the loop: the first half of the turns, then the rest on its
\* result (bound through a one-element set, which is evaluated at once,
\* so that the evaluation stays shallow)
FillTurns(engine_type, ps, n) ==
    IF n = 0 THEN ps
    ELSE IF n = 1 THEN FillStep(engine_type, ps)
    ELSE CHOOSE r \in {FillTurns(engine_type, half, n - (n \div 2)) :
                           half \in {FillTurns(engine_type, ps, n \div 2)}} : TRUE

\* the whole loop: every turn adds a byte, so PoolLen turns end it
FillPool(engine_type, st, pool) == FillTurns(engine_type, <<pool, st>>, PoolLen)

\* a slip: all eight bytes of the timestamp are mixed in
WhitenEight(pool, ts) ==
    [k \in 1..Len(pool) |-> IF k <= 8 THEN BitXor(pool[k], ts[k]) ELSE pool[k]]

\* pool[i] ^= ts_bytes[i] for i in range(4)
Whiten(pool, ts) ==
    [k \in 1..Len(pool) |-> IF k <= 4 THEN BitXor(pool[k], ts[k]) ELSE pool[k]]

\* a slip: s[i] takes s[j] and s[j] is left as it was
SwapOverwrite(s, i, j) == [s EXCEPT ![i + 1] = s[j + 1]]

\* the state table s of the cipher is kept as a sequence: s[i] of the code is
\* s[i + 1] here
Swap(s, i, j) == [s EXCEPT ![i + 1] = s[j + 1], ![j + 1] = s[i + 1]]

RECURSIVE Upto(_, _)
Upto(lo, hi) ==
    IF lo > hi THEN <<>>
    ELSE IF lo = hi THEN <<lo>>
    ELSE Upto(lo, (lo + hi) \div 2) \o Upto(((lo + hi) \div 2) + 1, hi)

\* list(range(256))
Range256 == Upto(0, 255)

\* a slip: only the first KeyLen bytes of the key are used
ScheduleStepShortKey(sj, key, i) ==
    LET j2 == (sj[2] + sj[1][i + 1] + key[(i % KeyLen) + 1]) % 256
    IN  <<Swap(sj[1], i, j2), j2>>

\* step i of the loop of ARC4.__init__ on <<s, j>>
ScheduleStep(sj, key, i) ==
    LET j2 == (sj[2] + sj[1][i + 1] + key[(i % Len(key)) + 1]) % 256
    IN  <<Swap(sj[1], i, j2), j2>>

RECURSIVE KeySchedule(_, _, _, _)
\* steps lo..hi-1 of that loop: the first half, then the rest on its result
KeySchedule(sj, key, lo, hi) ==
    IF hi <= lo THEN sj
    ELSE IF hi = lo + 1 THEN ScheduleStep(sj, key, lo)
    ELSE LET mid == (lo + hi) \div 2
         IN  CHOOSE r \in {KeySchedule(half, key, mid, hi) :
                               half \in {KeySchedule(sj, key, lo, mid)}} : TRUE

\* ARC4.__init__
ARC4Init(key) ==
    [s |-> KeySchedule(<<Range256, 0>>, key, 0, 256)[1], i |-> 0, j |-> 0]

\* ARC4.next_byte: <<byte, new cipher state>>
ARC4Next(c) ==
    LET i == (c.i + 1) % 256
        j == (c.j + c.s[i + 1]) % 256
        s == Swap(c.s, i, j)
    IN  <<s[((s[i + 1] + s[j + 1]) % 256) + 1], [s |-> s, i |-> i, j |-> j]>>

RECURSIVE Keystream(_, _)
\* [arc4.next_byte() for _ in range(n)] on <<bytes so far, cipher state>>
Keystream(kc, n) ==
    IF n = 0 THEN kc
    ELSE IF n = 1 THEN LET r == ARC4Next(kc[2]) IN <<Append(kc[1], r[1]), r[2]>>
    ELSE CHOOSE r \in {Keystream(half, n - (n \div 2)) :
                           half \in {Keystream(kc, n \div 2)}} : TRUE

\* derive_privkey_python from a built generator on: <<key, generator registers>>
DeriveFrom(ts, engine_type, st) ==
    LET filled == FillPool(engine_type, st, <<>>)
        pool == Whiten(filled[1], ts)
    IN  <<Keystream(<<<<>>, ARC4Init(pool)>>, KeyLen)[1], filled[2]>>

-----------------------------------------------------------------------------
(* Key extraction, call after call *)

DeriveInit ==
    /\ prng = [engine |-> "none"]
    /\ calls = <<>>

ParityIdle ==
    /\ par_pc = "idle"
    /\ total = 0
    /\ idx = 0
    /\ passed = 0
    /\ failed = 0
    /\ streak = 0
    /\ eligible = 0
    /\ early_stop = FALSE
    /\ summary = FALSE
    /\ exit_status = "none"

BloomIdle ==
    /\ corpus_file = [exists |-> FALSE]
    /\ filter_file = [exists |-> FALSE]
    /\ requested = [given |-> FALSE]
    /\ last_check = [asked |-> FALSE]
    /\ csv_file = [exists |-> FALSE]
    /\ c_pc = "idle"
    /\ c_skip = 0
    /\ c_filter = [loaded |-> FALSE]
    /\ c_pos = 0
    /\ c_i = 0
    /\ c_found = 0
    /\ c_left = 0
    /\ c_queried = <<>>
    /\ c_hits = <<>>
    /\ c_error = ""
    /\ full_run = [done |-> FALSE]

ScanIdle ==
    /\ scan_pc = "idle"
    /\ s_read = 0
    /\ count = 0
    /\ log_unverified = <<>>
    /\ log_confirmed = <<>>
    /\ log_empty = <<>>
    /\ s_before = [unverified |-> <<>>, confirmed |-> <<>>, empty |-> <<>>]
    /\ s_last = [line |-> [kind |-> "none"], hits |-> <<>>]

GenIdle ==
    /\ g_pc = "idle"
    /\ g_table = "none"
    /\ g_k = 0
    /\ g_out = <<>>
    /\ g_lines = <<>>
    /\ g_error = ""
    /\ g_runs = <<>>

PrngIdle ==
    /\ p_pc = "idle"
    /\ p_engine = "none"
    /\ p_seed = <<>>
    /\ p_regs = [engine |-> "none"]
    /\ p_prev = [engine |-> "none"]
    /\ p_outs = <<>>
    /\ t_regs = [engine |-> "none"]
    /\ t_outs = <<>>

PipeIdle ==
    /\ d_pc = "idle"
    /\ d_engine = "none"
    /\ d_ts = <<>>
    /\ d_prng = [engine |-> "none"]
    /\ d_outs = <<>>
    /\ d_pool = <<>>
    /\ d_raw = <<>>
    /\ d_s = <<>>
    /\ d_i = 0
    /\ d_j = 0
    /\ d_n = 0
    /\ d_sj = 0
    /\ d_kidx = 0
    /\ d_key = <<>>

ShaIdle ==
    /\ h_pc = "idle"
    /\ h_script = "none"
    /\ h_import = FALSE
    /\ h_state = <<>>
    /\ h_m = <<>>
    /\ h_v = <<>>
    /\ h_i = 0
    /\ h_lines = <<>>

VecIdle ==
    /\ v_pc = "idle"
    /\ v_ts = <<>>
    /\ v_seq = 0
    /\ v_seed = <<>>
    /\ v_entropy = <<>>
    /\ v_k = 0
    /\ v_seeds = <<>>
    /\ v_done = <<>>

CipherIdle ==
    /\ k_pc = "idle"
    /\ k_key = <<>>
    /\ k_s = <<>>
    /\ k_i = 0
    /\ k_j = 0
    /\ k_stream = <<>>

MonitorIdle ==
    /\ m_pc = "idle"
    /\ m_checks = 0
    /\ m_funded = FALSE
    /\ m_balance = <<>>
    /\ m_sleeps = 0
    /\ m_slept = 0
    /\ m_writes = 0
    /\ m_result = <<>>

IndicesIdle ==
    /\ e_pc = "idle"
    /\ e_entropy = <<>>
    /\ e_checksum = 0
    /\ e_indices = <<>>
    /\ e_error = ""

CompareIdle ==
    /\ x_pc = "idle"
    /\ x_ref = <<>>
    /\ x_gpu = <<>>
    /\ x_pos = 0
    /\ x_ref_addresses = <<>>
    /\ x_gpu_addresses = <<>>
    /\ x_matches = 0
    /\ x_mismatches = 0
    /\ x_error = ""
    /\ x_result = <<>>

\* every program before it starts
Init ==
    /\ DeriveInit /\ ParityIdle /\ BloomIdle /\ ScanIdle /\ GenIdle /\ PrngIdle
    /\ PipeIdle /\ ShaIdle /\ VecIdle /\ CipherIdle
    /\ MonitorIdle /\ IndicesIdle /\ CompareIdle

\* what a call on a freshly built generator yields, for every input of the
\* model: <<ts, engine, <<key, generator registers>>>>
FreshRuns ==
    {<<ts, e, DeriveFrom(ts, e, NewPrng(ts, e))>> : ts \in Timestamps, e \in Engines}

\* the run of derive_privkey_python(ts, engine_type)
RunOf(ts, engine_type) ==
    (CHOOSE r \in FreshRuns : r[1] = ts /\ r[2] = engine_type)[3]

\* a slip: the branch of 'ie' is missing, so that None is returned for it
derive_privkey_python_without_ie(ts, engine_type) ==
    IF engine_type \in Engines \ {"ie"}
    THEN [none |-> FALSE, bytes |-> RunOf(ts, engine_type)[1]]
    ELSE [none |-> TRUE]

\* derive_privkey_python: None for an engine it does not know
derive_privkey_python(ts, engine_type) ==
    IF engine_type \in Engines
    THEN [none |-> FALSE, bytes |-> RunOf(ts, engine_type)[1]]
    ELSE [none |-> TRUE]

\* one call of derive_privkey_python(ts, engine_type)
Derive(ts, engine_type) ==
    /\ Len(calls) < MaxCalls
    /\ \E r \in {RunOf(ts, engine_type)} :
           /\ prng' = [engine |-> engine_type, regs |-> r[2]]
           /\ calls' = Append(calls, [ts |-> ts, engine |-> engine_type, key |-> r[1]])
    /\ UNCHANGED not_derive

DeriveNext == \E ts \in Timestamps, e \in Engines : Derive(ts, e)

SpecDerive == Init /\ [][DeriveNext]_vars

-----------------------------------------------------------------------------
(* The parity run: main of tests/validate_parity.py *)

HexDigits == <<"0", "1", "2", "3", "4", "5", "6", "7",
               "8", "9", "a", "b", "c", "d", "e", "f">>

RECURSIVE HexFrom(_, _)
HexFrom(bs, k) ==
    IF k > Len(bs) THEN <<>>
    ELSE <<HexDigits[(bs[k] \div 16) + 1], HexDigits[(bs[k] % 16) + 1]>>
         \o HexFrom(bs, k + 1)

\* binascii.hexlify(bs).decode(): two lower-case digits a byte
hexlify(bs) == HexFrom(bs, 1)

\* an expected key that is no input's key
ZeroHex == [k \in 1..(2 * KeyLen) |-> "0"]

\* the expected keys a vector for (ts, engine) may carry: the right one, the
\* key of another engine for the same timestamp, and ZeroHex
ExpectedFor(ts, engine) ==
    IF engine \in Engines
    THEN {hexlify(RunOf(ts, engine)[1]),
          hexlify(RunOf(ts, IF engine = "v8" THEN "java" ELSE "v8")[1]),
          ZeroHex}
    ELSE {ZeroHex}

Vulnerabilities == {"randstorm", "milksad"}

\* the test vectors the run may read
Vectors ==
    UNION {{[vulnerability |-> vu, engine |-> e, timestamp_ms |-> ts,
             expected_privkey_hex |-> x] : x \in ExpectedFor(ts, e)} :
           vu \in Vulnerabilities, e \in Engines \cup OtherEngines, ts \in Timestamps}

FailLimit == 5

\* a slip: the run stops when the limit is reached, not when it is exceeded
TooManyFailuresAtLimit(f) == f >= FailLimit

\* if failed > 5
TooManyFailures(f) == f > FailLimit

\* the vectors file is read: it holds n vectors
ParityLoad(n) ==
    /\ par_pc = "idle"
    /\ par_pc' = "loop"
    /\ total' = n
    /\ UNCHANGED <<idx, passed, failed, streak, eligible, early_stop, summary,
                   exit_status>>
    /\ UNCHANGED not_parity

\* FileNotFoundError: the message is printed and main returns
ParityNoFile ==
    /\ par_pc = "idle"
    /\ par_pc' = "exited"
    /\ exit_status' = 0
    /\ UNCHANGED <<total, idx, passed, failed, streak, eligible, early_stop, summary>>
    /\ UNCHANGED not_parity

\* one turn of the for loop, on vector v
ParityVector(v) ==
    /\ par_pc = "loop"
    /\ idx < total
    /\ idx' = idx + 1
    /\ eligible' = IF /\ v.vulnerability = "randstorm"
                      /\ v.engine \in {"v8", "java", "ie", "safari-win"}
                   THEN eligible + 1 ELSE eligible
    /\ UNCHANGED <<total, summary, exit_status>>
    /\ UNCHANGED not_parity
    /\ LET py_privkey_bytes == derive_privkey_python(v.timestamp_ms, v.engine)
       IN  IF v.vulnerability # "randstorm" \/ py_privkey_bytes.none
           THEN UNCHANGED <<par_pc, passed, failed, streak, early_stop>>
           ELSE /\ IF hexlify(py_privkey_bytes.bytes) = v.expected_privkey_hex
                   THEN /\ passed' = passed + 1
                        /\ streak' = 0
                        /\ UNCHANGED <<par_pc, failed, early_stop>>
                   ELSE /\ failed' = failed + 1
                        /\ streak' = streak + 1
                        /\ UNCHANGED passed
                        /\ IF TooManyFailures(failed + 1)
                           THEN par_pc' = "summary" /\ early_stop' = TRUE
                           ELSE UNCHANGED <<par_pc, early_stop>>

\* the vectors are used up
ParityLoopEnd ==
    /\ par_pc = "loop"
    /\ idx = total
    /\ par_pc' = "summary"
    /\ UNCHANGED <<total, idx, passed, failed, streak, eligible, early_stop, summary,
                   exit_status>>
    /\ UNCHANGED not_parity

\* a slip: main returns after the summary whatever was counted
ExitStatusNormal(f) == 0

\* if failed == 0: main returns, else sys.exit(1)
ExitStatusFor(f) == IF f = 0 THEN 0 ELSE 1

\* the summary, then sys.exit(1) unless failed == 0
ParitySummary ==
    /\ par_pc = "summary"
    /\ summary' = TRUE
    /\ par_pc' = "exited"
    /\ exit_status' = ExitStatusFor(failed)
    /\ UNCHANGED <<total, idx, passed, failed, streak, eligible, early_stop>>
    /\ UNCHANGED not_parity

ParityNext ==
    \/ \E n \in 0..MaxVectors : ParityLoad(n)
    \/ ParityNoFile
    \/ \E v \in Vectors : ParityVector(v)
    \/ ParityLoopEnd
    \/ ParitySummary

SpecParity == Init /\ [][ParityNext]_vars

-----------------------------------------------------------------------------
(* The membership filter utility: bloom-util.py *)

\* Text is a sequence of one-character strings.
Whitespace == {" ", "\n"}

RECURSIVE LStrip(_)
LStrip(str) ==
    IF str = <<>> THEN str
    ELSE IF Head(str) \in Whitespace THEN LStrip(Tail(str)) ELSE str

RECURSIVE RStrip(_)
RStrip(str) ==
    IF str = <<>> THEN str
    ELSE IF str[Len(str)] \in Whitespace THEN RStrip(SubSeq(str, 1, Len(str) - 1))
    ELSE str

\* str.strip()
Strip(str) == RStrip(LStrip(str))

CharCode(c) ==
    CASE c = "\n" -> 10 [] c = " " -> 32 [] c = "," -> 44 [] c = "1" -> 49
      [] c = "2" -> 50 [] c = "a" -> 97 [] c = "b" -> 98 [] c = "c" -> 99
      [] c = "x" -> 120

RECURSIVE EncodeFrom(_, _)
EncodeFrom(str, k) ==
    IF k > Len(str) THEN <<>> ELSE <<CharCode(str[k])>> \o EncodeFrom(str, k + 1)

\* str.encode(): the bytes of the text
Encode(str) == EncodeFrom(str, 1)

RECURSIVE SumBytes(_, _)
SumBytes(key, k) == IF k > Len(key) THEN 0 ELSE key[k] + SumBytes(key, k + 1)

\* the bit of slice s (0-based) a key maps to: a small hash in place of the
\* library's digests, so that different keys may share bits
Hash(key, s) == (SumBytes(key, 1) * (s + 1) + s) % BloomBitsPerSlice

\* bitarray[offset + k], offset = s * bits_per_slice (1-based here)
BitIndex(key, s) == s * BloomBitsPerSlice + Hash(key, s) + 1

\* BloomFilter(capacity, error_rate)
BloomNew(capacity, error_rate) ==
    [capacity |-> capacity, error_rate |-> error_rate, count |-> 0,
     bitarray |-> [k \in 1..(BloomSlices * BloomBitsPerSlice) |-> FALSE]]

\* key in bloom_filter
BloomContains(bf, key) ==
    \A s \in 0..(BloomSlices - 1) : bf.bitarray[BitIndex(key, s)]

\* bloom_filter.add(key): IndexError once count is over the capacity
BloomAdd(bf, key) ==
    IF bf.count > bf.capacity THEN [raised |-> TRUE, filter |-> bf]
    ELSE [raised |-> FALSE,
          filter |-> [bf EXCEPT
              !.bitarray = [k \in 1..(BloomSlices * BloomBitsPerSlice) |->
                               bf.bitarray[k]
                               \/ \E s \in 0..(BloomSlices - 1) : k = BitIndex(key, s)],
              !.count = IF BloomContains(bf, key) THEN bf.count ELSE bf.count + 1]]

\* a slip: the line is added as read, line end and blanks included
LineKeyUnstripped(line) == Encode(line)

\* address = line.strip(); address.encode()
LineKey(line) == Encode(Strip(line))

RECURSIVE AddLines(_, _, _)
\* the for loop of construct_bloom_filter from line k on
AddLines(bf, lines, k) ==
    IF k > Len(lines) THEN [raised |-> FALSE, filter |-> bf]
    ELSE LET r == BloomAdd(bf, LineKey(lines[k]))
         IN  IF r.raised THEN r ELSE AddLines(r.filter, lines, k + 1)

\* pickle.dump: the object as the bytes of a file
Pickle(bf) ==
    [class |-> "BloomFilter", capacity |-> bf.capacity, error_rate |-> bf.error_rate,
     count |-> bf.count,
     bits |-> [k \in 1..Len(bf.bitarray) |-> IF bf.bitarray[k] THEN 1 ELSE 0]]

\* pickle.load
Unpickle(blob) ==
    [capacity |-> blob.capacity, error_rate |-> blob.error_rate, count |-> blob.count,
     bitarray |-> [k \in 1..Len(blob.bits) |-> blob.bits[k] = 1]]

HardCapacity == 1180626779
HardErrorRate == <<1, 1000000000>>      \* 0.000000001 as a fraction

RECURSIVE SeqsUpTo(_, _)
\* the sequences of at most n elements of S
SeqsUpTo(S, n) ==
    IF n = 0 THEN {<<>>}
    ELSE LET shorter == SeqsUpTo(S, n - 1)
         IN  shorter \cup {Append(q, x) : q \in shorter, x \in S}

\* the lines an address corpus may hold, as the file iterator yields them
CorpusLines == {<<"a", "\n">>, <<" ", "b", "\n">>, <<"\n">>}
Corpora == SeqsUpTo(CorpusLines, MaxCorpus)

\* the capacity and error rate a caller may want
Requests ==
    {[capacity |-> HardCapacity, error_rate |-> HardErrorRate],
     [capacity |-> 1000, error_rate |-> <<1, 100>>]}

\* the addresses asked for
Addresses == {<<"a">>, <<"b">>, <<" ", "b">>, <<"c">>, <<>>}

\* an address corpus is put in place
ProvideCorpus(lines) ==
    /\ ~corpus_file.exists
    /\ corpus_file' = [exists |-> TRUE, lines |-> lines]
    /\ UNCHANGED <<filter_file, requested, check_vars, csv_vars>>
    /\ UNCHANGED not_bloom

\* construct_bloom_filter(addresses_file, filter_file), by a caller who wants
\* the capacity and error rate req: the function takes neither
Construct(req) ==
    /\ corpus_file.exists
    /\ ~filter_file.exists
    /\ requested' = [given |-> TRUE, capacity |-> req.capacity,
                     error_rate |-> req.error_rate]
    /\ LET r == AddLines(BloomNew(HardCapacity, HardErrorRate), corpus_file.lines, 1)
       IN  IF r.raised THEN UNCHANGED filter_file
           ELSE filter_file' = [exists |-> TRUE, blob |-> Pickle(r.filter)]
    /\ UNCHANGED <<corpus_file, check_vars, csv_vars>>
    /\ UNCHANGED not_bloom

\* check_address(filter_file, address)
CheckAddress(address) ==
    /\ filter_file.exists
    /\ LET bloom_filter == Unpickle(filter_file.blob)
       IN  last_check' = [asked |-> TRUE, address |-> address,
                          answer |-> BloomContains(bloom_filter, Encode(address))]
    /\ UNCHANGED <<build_vars, csv_vars>>
    /\ UNCHANGED not_bloom

BloomCheckNext ==
    \/ \E lines \in Corpora : ProvideCorpus(lines)
    \/ \E req \in Requests : Construct(req)
    \/ \E address \in Addresses : CheckAddress(address)

SpecBloomCheck == Init /\ [][BloomCheckNext]_vars

RECURSIVE CsvFields(_, _, _)
\* the fields of a line from character k on, field being the one in progress
CsvFields(line, k, field) ==
    IF k > Len(line) THEN <<field>>
    ELSE IF line[k] = "," THEN <<field>> \o CsvFields(line, k + 1, <<>>)
    ELSE CsvFields(line, k + 1, Append(field, line[k]))

\* csv.reader(csvfile, delimiter=','): an empty line is a row of no fields
CsvSplit(line) == IF line = <<>> THEN <<>> ELSE CsvFields(line, 1, <<>>)

\* the lines a CSV of (id, address) rows may hold
CsvLines == {<<"1", ",", "a">>, <<"2", ",", "c">>, <<"x">>, <<>>}
CsvFiles == SeqsUpTo(CsvLines, MaxRows) \ {<<>>}

\* a slip: one line more than asked for is left to skip
SkipOneMore(skip_lines) == skip_lines + 1

\* skip_lines_remaining = skip_lines
SkipLinesRemaining(skip_lines) == skip_lines

\* a CSV of addresses is put in place
ProvideCsv(lines) ==
    /\ ~csv_file.exists
    /\ csv_file' = [exists |-> TRUE, lines |-> lines]
    /\ UNCHANGED <<build_vars, check_vars, c_pc, c_skip, c_filter, c_pos, c_i,
                   c_found, c_left, c_queried, c_hits, c_error, full_run>>
    /\ UNCHANGED not_bloom

\* check_address_csv(filter_file, csv_file, skip_lines) up to the loop; a run
\* with an offset follows a finished run over the whole file
CsvStart(skip_lines) ==
    /\ filter_file.exists
    /\ csv_file.exists
    /\ \/ c_pc = "idle" /\ skip_lines = 0
       \/ c_pc = "done" /\ c_skip = 0
    /\ c_pc' = "rows"
    /\ c_skip' = skip_lines
    /\ c_filter' = [loaded |-> TRUE, filter |-> Unpickle(filter_file.blob)]
    /\ c_pos' = 0
    /\ c_i' = 0
    /\ c_found' = 0
    /\ c_left' = SkipLinesRemaining(skip_lines)
    /\ c_queried' = <<>>
    /\ c_hits' = <<>>
    /\ c_error' = ""
    /\ UNCHANGED <<build_vars, check_vars, csv_file, full_run>>
    /\ UNCHANGED not_bloom

\* one turn of `for dataline in datareader`
CsvRow ==
    /\ c_pc = "rows"
    /\ c_pos < Len(csv_file.lines)
    /\ c_pos' = c_pos + 1
    /\ LET dataline == CsvSplit(csv_file.lines[c_pos + 1])
       IN  IF c_left > 0
           THEN /\ c_left' = c_left - 1
                /\ c_i' = c_i + 1
                /\ UNCHANGED <<c_pc, c_found, c_queried, c_hits, c_error>>
           ELSE IF Len(dataline) < 2
           THEN \* dataline[1] raises IndexError; `except e:` then looks up the
                \* name e, which is not defined, and the NameError leaves the
                \* function
                /\ c_pc' = "crashed"
                /\ c_error' = "NameError"
                /\ UNCHANGED <<c_left, c_i, c_found, c_queried, c_hits>>
           ELSE LET address == dataline[2]
                    id == dataline[1]
                    hit == BloomContains(c_filter.filter, Encode(address))
                IN  /\ c_queried' = Append(c_queried, c_pos + 1)
                    /\ c_found' = IF hit THEN c_found + 1 ELSE c_found
                    /\ c_hits' = IF hit
                                 THEN Append(c_hits, <<c_pos + 1, id \o <<",">> \o address>>)
                                 ELSE c_hits
                    /\ c_i' = c_i + 1
                    /\ UNCHANGED <<c_pc, c_left, c_error>>
    /\ UNCHANGED <<build_vars, check_vars, csv_file, c_skip, c_filter, full_run>>
    /\ UNCHANGED not_bloom

\* the reader is exhausted and the totals are printed
CsvEnd ==
    /\ c_pc = "rows"
    /\ c_pos = Len(csv_file.lines)
    /\ c_pc' = "done"
    /\ full_run' = IF c_skip = 0
                   THEN [done |-> TRUE, hits |-> c_hits, queried |-> c_queried, i |-> c_i]
                   ELSE full_run
    /\ UNCHANGED <<build_vars, check_vars, csv_file, c_skip, c_filter, c_pos, c_i,
                   c_found, c_left, c_queried, c_hits, c_error>>
    /\ UNCHANGED not_bloom

BloomCsvNext ==
    \/ \E lines \in Corpora : ProvideCorpus(lines)
    \/ \E req \in Requests : Construct(req)
    \/ \E lines \in CsvFiles : ProvideCsv(lines)
    \/ \E skip_lines \in 0..MaxRows : CsvStart(skip_lines)
    \/ CsvRow
    \/ CsvEnd

SpecBloomCsv == Init /\ [][BloomCsvNext]_vars

-----------------------------------------------------------------------------
(* The scan of candidates against the targets: scripts/check_mnemonics.py *)

\* the addresses of the targets table, and one that is not in it
Targets == {"1A", "bc1B"}
NoTarget == "1Z"

\* what a line of standard input is, after strip(): its kind and the addresses
\* the libraries derive from it (Base58 of the GPU bytes, BIP44 and BIP84 of the
\* mnemonic)
InputLines ==
    {[kind |-> "blank"],
     [kind |-> "gpu", hex |-> TRUE, address |-> "1A"],
     [kind |-> "gpu", hex |-> TRUE, address |-> NoTarget],
     [kind |-> "gpu", hex |-> FALSE],
     [kind |-> "words", n |-> 3],
     [kind |-> "words", n |-> 12, valid |-> FALSE],
     [kind |-> "words", n |-> 12, valid |-> TRUE, mnemonic |-> "M1",
      addr44 |-> "1A", addr84 |-> "bc1B"],
     [kind |-> "words", n |-> 12, valid |-> TRUE, mnemonic |-> "M2",
      addr44 |-> NoTarget, addr84 |-> "bc1B"],
     [kind |-> "words", n |-> 12, valid |-> TRUE, mnemonic |-> "M3",
      addr44 |-> NoTarget, addr84 |-> NoTarget]}

\* what the RPC endpoint does with a scantxoutset request
Replies ==
    {[kind |-> "exception"],                     \* connection refused, bad JSON
     [kind |-> "timeout"],                       \* no answer within 30 s
     [kind |-> "http", status |-> 500, result |-> FALSE],
     [kind |-> "http", status |-> 200, result |-> FALSE],   \* "result": null
     [kind |-> "http", status |-> 200, result |-> TRUE, total_amount |-> 0],
     [kind |-> "http", status |-> 200, result |-> TRUE, total_amount |-> 5]}

\* check_balance_rpc(address), given what the endpoint does
check_balance_rpc(reply) ==
    IF reply.kind # "http" THEN [none |-> TRUE]
    ELSE IF reply.status = 200 /\ reply.result
         THEN [none |-> FALSE, value |-> reply.total_amount]
         ELSE [none |-> FALSE, value |-> 0]

\* a slip: a balance of zero counts as funds
IsFundedOrZero(balance) == balance >= 0

\* elif balance > 0
IsFunded(balance) == balance > 0

\* the branch of the if / elif / else a balance takes
LogFor(balance) ==
    IF balance.none THEN "unverified"
    ELSE IF IsFunded(balance.value) THEN "confirmed" ELSE "empty"

\* str() of the amounts of the model
Str(n) == <<"0", "1", "2", "3", "4", "5", "6", "7", "8", "9", "10", "11", "12", "13",
            "14", "15">>[n + 1]

\* the text written for a hit on a GPU line, as the pieces of the f-string
GpuMsg(log, address, balance) ==
    CASE log = "unverified" -> <<"POTENTIAL HIT (RPC error): ", address>>
      [] log = "confirmed" ->
            <<"CONFIRMED HIT! ", address, " | Balance: ", Str(balance.value), " BTC">>
      [] log = "empty" -> <<address, " (empty)">>

\* the text written for a hit on a mnemonic line
MnemonicMsg(log, mnemonic, address, balance) ==
    CASE log = "unverified" -> <<"POTENTIAL HIT (RPC error): ", mnemonic, " -> ", address>>
      [] log = "confirmed" ->
            <<"CONFIRMED HIT! ", mnemonic, " -> ", address, " | Balance: ",
              Str(balance.value), " BTC">>
      [] log = "empty" -> <<mnemonic, " -> ", address, " (empty)">>

\* with open(..., "a") as h: h.write(msg + "\n")
AppendTo(logs, log, msg) ==
    [logs EXCEPT ![log] = Append(logs[log], msg)]

\* the orders in which fetchall() may hand out the rows of S
Orderings(S) ==
    {q \in SeqsUpTo(S, Cardinality(S)) :
        Len(q) = Cardinality(S) /\ \A a, b \in 1..Len(q) : a # b => q[a] # q[b]}

\* the addresses of a line that the SELECT finds in the targets table
HitSet(line) ==
    IF line.kind = "gpu" /\ line.hex THEN {line.address} \cap Targets
    ELSE IF line.kind = "words" /\ line.n = 12 /\ line.valid
         THEN {line.addr44, line.addr84} \cap Targets
         ELSE {}

RECURSIVE Classify(_, _, _, _, _)
\* the body of `if hits:` from hit k on (a GPU line has at most one): the logs
\* and what was done per hit
Classify(line, hits, replies, k, acc) ==
    IF k > Len(hits) THEN acc
    ELSE LET address == hits[k]
             balance == check_balance_rpc(replies[k])
             log == LogFor(balance)
             msg == IF line.kind = "gpu" THEN GpuMsg(log, address, balance)
                    ELSE MnemonicMsg(log, line.mnemonic, address, balance)
         IN  Classify(line, hits, replies, k + 1,
                      [logs |-> AppendTo(acc.logs, log, msg),
                       done |-> Append(acc.done,
                                       [address |-> address, reply |-> replies[k],
                                        balance |-> balance, log |-> log])])

\* main up to the loop: the database file is there and is opened
ScanStart ==
    /\ scan_pc = "idle"
    /\ scan_pc' = "scanning"
    /\ UNCHANGED <<s_read, count, log_vars, s_before, s_last>>
    /\ UNCHANGED not_scan

\* main when the database file is missing: the message, then return
ScanNoDb ==
    /\ scan_pc = "idle"
    /\ scan_pc' = "closed"
    /\ UNCHANGED <<s_read, count, log_vars, s_before, s_last>>
    /\ UNCHANGED not_scan

\* one turn of `for line in sys.stdin`, the endpoint answering the balance
\* query of hit k with replies[k]
ScanLine(line, hits, replies) ==
    /\ scan_pc = "scanning"
    /\ s_read < MaxLines
    /\ s_read' = s_read + 1
    /\ s_before' = [unverified |-> log_unverified, confirmed |-> log_confirmed,
                    empty |-> log_empty]
    /\ IF line.kind = "words" /\ line.n = 12 /\ ~line.valid
       THEN \* Bip39SeedGenerator raises ValueError, which nothing catches
            /\ scan_pc' = "crashed"
            /\ s_last' = [line |-> line, hits |-> <<>>]
            /\ UNCHANGED <<count, log_vars>>
       ELSE LET start == [logs |-> [unverified |-> log_unverified,
                                    confirmed |-> log_confirmed,
                                    empty |-> log_empty],
                          done |-> <<>>]
                r == Classify(line, hits, replies, 1, start)
            IN  /\ log_unverified' = r.logs.unverified
                /\ log_confirmed' = r.logs.confirmed
                /\ log_empty' = r.logs.empty
                /\ s_last' = [line |-> line, hits |-> r.done]
                /\ count' = IF line.kind = "gpu" \/ (line.kind = "words" /\ line.n = 12)
                            THEN count + 1 ELSE count
                /\ UNCHANGED scan_pc
    /\ UNCHANGED not_scan

\* standard input is at its end, or the scan is interrupted from the keyboard:
\* finally, conn.close()
ScanEnd ==
    /\ scan_pc = "scanning"
    /\ scan_pc' = "closed"
    /\ UNCHANGED <<s_read, count, log_vars, s_before, s_last>>
    /\ UNCHANGED not_scan

ScanNext ==
    \/ ScanStart
    \/ ScanNoDb
    \/ \E line \in InputLines :
          \E hits \in Orderings(HitSet(line)) :
             \E replies \in [1..Len(hits) -> Replies] : ScanLine(line, hits, replies)
    \/ ScanEnd

SpecScan == Init /\ [][ScanNext]_vars

-----------------------------------------------------------------------------
(* The kernel generator: scripts/generate_ripemd160_wgsl.py *)

\* the five orders of the working variables, as the text of the table
ABCDE == <<"A", ",", "B", ",", "C", ",", "D", ",", "E">>
EABCD == <<"E", ",", "A", ",", "B", ",", "C", ",", "D">>
DEABC == <<"D", ",", "E", ",", "A", ",", "B", ",", "C">>
CDEAB == <<"C", ",", "D", ",", "E", ",", "A", ",", "B">>
BCDEA == <<"B", ",", "C", ",", "D", ",", "E", ",", "A">>

\* the table `rounds`: per group (round_name, f_left, k_left, f_right, k_right,
\* round_data), per round (vars, r_left, s_left, r_right, s_right)
rounds ==
    <<
     <<<<"r", "o", "u", "n", "d", "1">>, "F1", "0x00000000u", "F5", "0x50a28be6u", <<
       <<ABCDE, 0, 11, 5, 8>>, <<EABCD, 1, 14, 14, 9>>, <<DEABC, 2, 15, 7, 9>>, <<CDEAB, 3, 12, 0, 11>>,
       <<BCDEA, 4, 5, 9, 13>>, <<ABCDE, 5, 8, 2, 15>>, <<EABCD, 6, 7, 11, 15>>, <<DEABC, 7, 9, 4, 5>>,
       <<CDEAB, 8, 11, 13, 7>>, <<BCDEA, 9, 13, 6, 7>>, <<ABCDE, 10, 14, 15, 8>>, <<EABCD, 11, 15, 8, 11>>,
       <<DEABC, 12, 6, 1, 14>>, <<CDEAB, 13, 7, 10, 14>>, <<BCDEA, 14, 9, 3, 12>>, <<ABCDE, 15, 8, 12, 6>>>> >>,
     <<<<"r", "o", "u", "n", "d", "2">>, "F2", "0x5a827999u", "F4", "0x5c4dd124u", <<
       <<EABCD, 7, 7, 6, 9>>, <<DEABC, 4, 6, 11, 13>>, <<CDEAB, 13, 8, 3, 15>>, <<BCDEA, 1, 13, 7, 7>>,
       <<ABCDE, 10, 11, 0, 12>>, <<EABCD, 6, 9, 13, 8>>, <<DEABC, 15, 7, 5, 9>>, <<CDEAB, 3, 15, 10, 11>>,
       <<BCDEA, 12, 7, 14, 7>>, <<ABCDE, 0, 12, 15, 7>>, <<EABCD, 9, 15, 8, 12>>, <<DEABC, 5, 9, 12, 7>>,
       <<CDEAB, 2, 11, 4, 6>>, <<BCDEA, 14, 7, 9, 15>>, <<ABCDE, 11, 13, 1, 13>>, <<EABCD, 8, 12, 2, 11>>>> >>,
     <<<<"r", "o", "u", "n", "d", "3">>, "F3", "0x6ed9eba1u", "F3", "0x6d703ef3u", <<
       <<DEABC, 3, 11, 15, 9>>, <<CDEAB, 10, 13, 5, 7>>, <<BCDEA, 14, 6, 1, 15>>, <<ABCDE, 4, 7, 3, 11>>,
       <<EABCD, 9, 14, 7, 8>>, <<DEABC, 15, 9, 14, 6>>, <<CDEAB, 8, 13, 6, 6>>, <<BCDEA, 1, 15, 9, 14>>,
       <<ABCDE, 2, 14, 11, 12>>, <<EABCD, 7, 8, 8, 13>>, <<DEABC, 0, 13, 12, 5>>, <<CDEAB, 6, 6, 2, 14>>,
       <<BCDEA, 13, 5, 10, 13>>, <<ABCDE, 11, 12, 0, 13>>, <<EABCD, 5, 7, 4, 7>>, <<DEABC, 12, 5, 13, 5>>>> >>,
     <<<<"r", "o", "u", "n", "d", "4">>, "F4", "0x8f1bbcdcu", "F2", "0x7a6d76e9u", <<
       <<CDEAB, 1, 11, 8, 15>>, <<BCDEA, 9, 12, 6, 5>>, <<ABCDE, 11, 14, 4, 8>>, <<EABCD, 10, 15, 1, 11>>,
       <<DEABC, 0, 14, 3, 14>>, <<CDEAB, 8, 15, 11, 14>>, <<BCDEA, 12, 9, 15, 6>>, <<ABCDE, 4, 8, 0, 14>>,
       <<EABCD, 13, 9, 5, 6>>, <<DEABC, 3, 14, 12, 9>>, <<CDEAB, 7, 5, 2, 12>>, <<BCDEA, 15, 6, 13, 9>>,
       <<ABCDE, 14, 8, 9, 12>>, <<EABCD, 5, 6, 7, 5>>, <<DEABC, 6, 5, 10, 15>>, <<CDEAB, 2, 12, 14, 8>>>> >>,
     <<<<"r", "o", "u", "n", "d", "5">>, "F5", "0xa953fd4eu", "F1", "0x00000000u", <<
       <<BCDEA, 4, 9, 12, 8>>, <<ABCDE, 0, 15, 15, 5>>, <<EABCD, 5, 5, 10, 12>>, <<DEABC, 9, 11, 4, 9>>,
       <<CDEAB, 7, 6, 1, 12>>, <<BCDEA, 12, 8, 5, 5>>, <<ABCDE, 2, 13, 8, 14>>, <<EABCD, 10, 12, 7, 6>>,
       <<DEABC, 14, 5, 6, 8>>, <<CDEAB, 1, 12, 2, 13>>, <<BCDEA, 3, 13, 13, 6>>, <<ABCDE, 8, 14, 14, 5>>,
       <<EABCD, 11, 11, 0, 15>>, <<DEABC, 6, 8, 3, 13>>, <<CDEAB, 15, 5, 9, 11>>, <<BCDEA, 13, 6, 11, 11>>>> >>
    >>

\* f_functions, each expression as its characters
f_functions ==
    [F1 |-> <<"(", "b", " ", "^", " ", "c", " ", "^", " ", "d", ")">>,
     F2 |-> <<"(", "(", "b", " ", "&", " ", "c", ")", " ", "|", " ", "(",
             "(", "~", "b", ")", " ", "&", " ", "d", ")", ")">>,
     F3 |-> <<"(", "(", "b", " ", "|", " ", "(", "~", "c", ")", ")", " ",
             "^", " ", "d", ")">>,
     F4 |-> <<"(", "(", "b", " ", "&", " ", "d", ")", " ", "|", " ", "(",
             "c", " ", "&", " ", "(", "~", "d", ")", ")", ")">>,
     F5 |-> <<"(", "b", " ", "^", " ", "(", "c", " ", "|", " ", "(", "~",
             "d", ")", ")", ")">>]

\* a slip in the table of the script: the second group reads word 4 twice on
\* the left and never reads word 13
TableOfRepeatedWord(name) ==
    CASE name = "rounds" -> [rounds EXCEPT ![2][6][3][2] = 4]
      [] name = "missing_field" -> [rounds EXCEPT ![3][6][5] = SubSeq(@, 1, 4)]
      [] name = "four_vars" -> [rounds EXCEPT ![1][6][1][1] = SubSeq(@, 1, 7)]
      [] name = "no_selector" -> [rounds EXCEPT ![5][2] = "F6"]
      [] name = "short_group" -> [rounds EXCEPT ![2][6] = SubSeq(@, 1, 15)]

\* a slip in the table of the script: the second group starts over with the
\* register orders of the first
TableOfRestarted(name) ==
    CASE name = "rounds" ->
             [rounds EXCEPT ![2][6] = [n \in 1..16 |-> [@[n] EXCEPT ![1] = rounds[1][6][n][1]]]]
      [] name = "missing_field" -> [rounds EXCEPT ![3][6][5] = SubSeq(@, 1, 4)]
      [] name = "four_vars" -> [rounds EXCEPT ![1][6][1][1] = SubSeq(@, 1, 7)]
      [] name = "no_selector" -> [rounds EXCEPT ![5][2] = "F6"]
      [] name = "short_group" -> [rounds EXCEPT ![2][6] = SubSeq(@, 1, 15)]

\* tables that are not consistent: a round with a field missing, a round whose
\* vars name four variables, a selector f_functions does not have, and a group
\* that is one round short
TableOf(name) ==
    CASE name = "rounds" -> rounds
      [] name = "missing_field" -> [rounds EXCEPT ![3][6][5] = SubSeq(@, 1, 4)]
      [] name = "four_vars" -> [rounds EXCEPT ![1][6][1][1] = SubSeq(@, 1, 7)]
      [] name = "no_selector" -> [rounds EXCEPT ![5][2] = "F6"]
      [] name = "short_group" -> [rounds EXCEPT ![2][6] = SubSeq(@, 1, 15)]

TableNames == {"rounds", "missing_field", "four_vars", "no_selector", "short_group"}

\* str.lower() of one character
Lower(ch) ==
    CASE ch = "A" -> "a" [] ch = "B" -> "b" [] ch = "C" -> "c" [] ch = "D" -> "d"
      [] ch = "E" -> "e" [] ch = "R" -> "r" [] OTHER -> ch

\* str.upper() of one character
Upper(ch) ==
    CASE ch = "a" -> "A" [] ch = "b" -> "B" [] ch = "c" -> "C" [] ch = "d" -> "D"
      [] ch = "e" -> "E" [] ch = "r" -> "R" [] OTHER -> ch

\* str.capitalize()
Capitalize(str) ==
    [k \in 1..Len(str) |-> IF k = 1 THEN Upper(str[k]) ELSE Lower(str[k])]

\* [v.lower() for v in vars_list], [v.lower() + 'p' for v in vars_list]
LowerAll(str) == [k \in 1..Len(str) |-> Lower(str[k])]

RECURSIVE SplitFrom(_, _, _)
SplitFrom(str, k, part) ==
    IF k > Len(str) THEN <<part>>
    ELSE IF str[k] = "," THEN <<part>> \o SplitFrom(str, k + 1, <<>>)
    ELSE SplitFrom(str, k + 1, Append(part, str[k]))

\* vars_str.split(',')
SplitComma(str) == SplitFrom(str, 1, <<>>)

RECURSIVE Replace(_, _, _)
\* str.replace(old, new), old not empty
Replace(str, old, new) ==
    IF Len(str) < Len(old) THEN str
    ELSE IF SubSeq(str, 1, Len(old)) = old
         THEN new \o Replace(SubSeq(str, Len(old) + 1, Len(str)), old, new)
         ELSE <<Head(str)>> \o Replace(Tail(str), old, new)

\* f'___{old}___'
Placeholder(old) == <<"_", "_", "_">> \o old \o <<"_", "_", "_">>

RECURSIVE FirstPass(_, _, _)
FirstPass(result, var_map, k) ==
    IF k > Len(var_map) THEN result
    ELSE FirstPass(Replace(result, var_map[k][1], Placeholder(var_map[k][1])),
                   var_map, k + 1)

RECURSIVE SecondPass(_, _, _)
SecondPass(result, var_map, k) ==
    IF k > Len(var_map) THEN result
    ELSE SecondPass(Replace(result, Placeholder(var_map[k][1]), var_map[k][2]),
                    var_map, k + 1)

\* a slip: each name is replaced at once, so that a name put in by one
\* replacement is replaced again by a later one
apply_func_direct(func_expr, var_map) ==
    Replace(Replace(Replace(func_expr, var_map[1][1], var_map[1][2]),
                    var_map[2][1], var_map[2][2]),
            var_map[3][1], var_map[3][2])

\* apply_func(func_expr, var_map), var_map in the order of its keys
apply_func(func_expr, var_map) ==
    SecondPass(FirstPass(func_expr, var_map, 1), var_map, 1)

\* the left_line or right_line of one round, as the pieces of the f-string
StatementLine(a, c, e, f_expr, r, k, sh) ==
    <<"    ">> \o a \o <<" += ">> \o f_expr \o <<" + block[", Str(r), "] + ", k, "; ">>
        \o a \o <<" = rol(">> \o a \o <<", ", Str(sh), "u) + ">> \o e \o <<"; ">>
        \o c \o <<" = rol(">> \o c \o <<", 10u);">>

\* one turn of the loop of generate_round: the exception it raises, or "" and
\* the two lines it appends
RoundLines(f_left, k_left, f_right, k_right, round) ==
    IF Len(round) # 5 THEN [raised |-> "ValueError", lines |-> <<>>]
    ELSE LET vars_list == SplitComma(round[1])
         IN  IF Len(vars_list) # 5 THEN [raised |-> "ValueError", lines |-> <<>>]
             ELSE IF f_left \notin DOMAIN f_functions \/ f_right \notin DOMAIN f_functions
             THEN [raised |-> "KeyError", lines |-> <<>>]
             ELSE LET v == [n \in 1..5 |-> LowerAll(vars_list[n])]
                      vp == [n \in 1..5 |-> LowerAll(vars_list[n]) \o <<"p">>]
                      f_left_expr ==
                          apply_func(f_functions[f_left],
                                     <<<< <<"b">>, v[2]>>, << <<"c">>, v[3]>>,
                                       << <<"d">>, v[4]>>>>)
                      f_right_expr ==
                          apply_func(f_functions[f_right],
                                     <<<< <<"b">>, vp[2]>>, << <<"c">>, vp[3]>>,
                                       << <<"d">>, vp[4]>>>>)
                  IN  [raised |-> "",
                       lines |-> <<StatementLine(v[1], v[3], v[5], f_left_expr,
                                                 round[2], k_left, round[3]),
                                   StatementLine(vp[1], vp[3], vp[5], f_right_expr,
                                                 round[4], k_right, round[5])>>]

\* a slip: the list of the call before is kept and added to
KeptLines(before, heading) == before \o <<heading>>

\* lines = [f"    // {round_name.capitalize()}: {f_left} left, {f_right} right"]
FreshLines(before, heading) == <<heading>>

RECURSIVE RoundsFrom(_, _, _, _, _, _, _)
\* the loop of generate_round from round n on
RoundsFrom(f_left, k_left, f_right, k_right, round_data, n, lines) ==
    IF n > Len(round_data) THEN [raised |-> "", lines |-> lines]
    ELSE LET r == RoundLines(f_left, k_left, f_right, k_right, round_data[n])
         IN  IF r.raised # "" THEN [raised |-> r.raised, lines |-> lines]
             ELSE RoundsFrom(f_left, k_left, f_right, k_right, round_data, n + 1,
                             lines \o r.lines)

\* generate_round(...): the exception it raises, or "" and the lines it joins;
\* before is what `lines` held when the call began
generate_round(round_name, f_left, k_left, f_right, k_right, round_data, before) ==
    RoundsFrom(f_left, k_left, f_right, k_right, round_data, 1,
               FreshLines(before,
                          <<"    // ">> \o Capitalize(round_name)
                              \o <<": ", f_left, " left, ", f_right, " right">>))

\* the four prints before the loop
Header ==
    <<<<"fn ripemd160_transform(state: ptr<function, array<u32, 5>>, block: array<u32, 16>) {">>,
      <<"    var a = (*state)[0]; var b = (*state)[1]; var c = (*state)[2]; var d = (*state)[3]; var e = (*state)[4];">>,
      <<"    var ap = a; var bp = b; var cp = c; var dp = d; var ep = e;">>,
      <<>> >>

\* a slip: every state word takes its own old value and its own two registers
FooterInPlace ==
    <<<<"    let ", "h", "0", " = (*state)[", "0", "];">>,
      <<"    let ", "h", "1", " = (*state)[", "1", "];">>,
      <<"    let ", "h", "2", " = (*state)[", "2", "];">>,
      <<"    let ", "h", "3", " = (*state)[", "3", "];">>,
      <<"    let ", "h", "4", " = (*state)[", "4", "];">>,
      <<"    ">>,
      <<"    (*state)[", "0", "] = ", "h", "0", " + ", "a", " + ", "a", "p", ";">>,
      <<"    (*state)[", "1", "] = ", "h", "1", " + ", "b", " + ", "b", "p", ";">>,
      <<"    (*state)[", "2", "] = ", "h", "2", " + ", "c", " + ", "c", "p", ";">>,
      <<"    (*state)[", "3", "] = ", "h", "3", " + ", "d", " + ", "d", "p", ";">>,
      <<"    (*state)[", "4", "] = ", "h", "4", " + ", "e", " + ", "e", "p", ";">>,
      <<"}">> >>

\* the prints after the loop, each line as the pieces of its text
Footer ==
    <<<<"    let ", "h", "0", " = (*state)[", "0", "];">>,
      <<"    let ", "h", "1", " = (*state)[", "1", "];">>,
      <<"    let ", "h", "2", " = (*state)[", "2", "];">>,
      <<"    let ", "h", "3", " = (*state)[", "3", "];">>,
      <<"    let ", "h", "4", " = (*state)[", "4", "];">>,
      <<"    ">>,
      <<"    (*state)[", "0", "] = ", "h", "1", " + ", "c", " + ", "d", "p", ";">>,
      <<"    (*state)[", "1", "] = ", "h", "2", " + ", "d", " + ", "e", "p", ";">>,
      <<"    (*state)[", "2", "] = ", "h", "3", " + ", "e", " + ", "a", "p", ";">>,
      <<"    (*state)[", "3", "] = ", "h", "4", " + ", "a", " + ", "b", "p", ";">>,
      <<"    (*state)[", "4", "] = ", "h", "0", " + ", "b", " + ", "c", "p", ";">>,
      <<"}">> >>

\* the script is started with a table in place of `rounds`
GenStart(name) ==
    /\ g_pc \in {"idle", "done", "failed"}
    /\ Len(g_runs) < MaxRuns
    /\ g_pc' = "header"
    /\ g_table' = name
    /\ g_k' = 0
    /\ g_out' = <<>>
    /\ g_error' = ""
    /\ UNCHANGED <<g_lines, g_runs>>
    /\ UNCHANGED not_gen

\* the prints of the signature and of the variables
GenHeader ==
    /\ g_pc = "header"
    /\ g_pc' = "rounds"
    /\ g_k' = 1
    /\ g_out' = g_out \o Header
    /\ UNCHANGED <<g_table, g_lines, g_error, g_runs>>
    /\ UNCHANGED not_gen

\* one turn of `for ... in rounds`: the group is unpacked, generate_round is
\* called, and what it returns is printed with an empty line after it
GenRound ==
    /\ g_pc = "rounds"
    /\ g_k <= Len(TableOf(g_table))
    /\ LET group == TableOf(g_table)[g_k]
       IN  \E r \in {IF Len(group) # 6 THEN [raised |-> "ValueError", lines |-> g_lines]
                     ELSE generate_round(group[1], group[2], group[3], group[4],
                                         group[5], group[6], g_lines)} :
              /\ g_lines' = r.lines
              /\ IF r.raised # ""
                 THEN /\ g_pc' = "failed"
                      /\ g_error' = r.raised
                      /\ g_runs' = Append(g_runs, [table |-> g_table, status |-> "failed",
                                                   out |-> g_out])
                      /\ UNCHANGED <<g_k, g_out>>
                 ELSE /\ g_out' = g_out \o r.lines \o << <<>> >>
                      /\ g_k' = g_k + 1
                      /\ UNCHANGED <<g_pc, g_error, g_runs>>
    /\ UNCHANGED g_table
    /\ UNCHANGED not_gen

\* the loop is over: the prints of the state update and of the closing brace
GenFooter ==
    /\ g_pc = "rounds"
    /\ g_k > Len(TableOf(g_table))
    /\ g_pc' = "done"
    /\ g_out' = g_out \o Footer
    /\ g_runs' = Append(g_runs, [table |-> g_table, status |-> "done",
                                 out |-> g_out \o Footer])
    /\ UNCHANGED <<g_table, g_k, g_lines, g_error>>
    /\ UNCHANGED not_gen

GenNext ==
    \/ \E name \in TableNames : GenStart(name)
    \/ GenHeader
    \/ GenRound
    \/ GenFooter

SpecGen == Init /\ [][GenNext]_vars

-----------------------------------------------------------------------------
(* One generator object, built from a seed and stepped *)

\* the 64-bit seeds a generator is built from: zero, a zero low half, a zero
\* high half, the base timestamp, all bits set, and 1 in both halves
Seeds ==
    {ToBytes(0, 8),
     <<0, 0, 0, 0, 7, 0, 0, 0>>,
     <<5, 0, 0, 0, 0, 0, 0, 0>>,
     BaseTimestamp,
     <<255, 255, 255, 255, 255, 255, 255, 255>>,
     <<1, 0, 0, 0, 1, 0, 0, 0>>}

\* the seed with each 32-bit half that is zero replaced by 1
TwinSeed(seed) ==
    (IF IsZero(Slice(seed, 1, 4)) THEN ToBytes(1, 4) ELSE Slice(seed, 1, 4))
        \o (IF IsZero(Slice(seed, 5, 8)) THEN ToBytes(1, 4) ELSE Slice(seed, 5, 8))

\* the other name of the engine, where derive_privkey_python knows two
TwinEngine(engine_type) ==
    IF engine_type = "java" THEN "ie"
    ELSE IF engine_type = "ie" THEN "java"
    ELSE engine_type

\* prng = V8Mwc1616(seed), JavaLcg(seed) or SafariCrt(seed); beside it the
\* generator of the other engine name is built from the seed whose zero
\* halves are 1
PrngNew(engine_type, seed) ==
    /\ p_pc = "idle"
    /\ p_pc' = "ready"
    /\ p_engine' = engine_type
    /\ p_seed' = seed
    /\ p_regs' = NewPrng(seed, engine_type)
    /\ p_prev' = NewPrng(seed, engine_type)
    /\ p_outs' = <<>>
    /\ t_regs' = NewPrng(IF engine_type = "v8" THEN TwinSeed(seed) ELSE seed,
                         TwinEngine(engine_type))
    /\ t_outs' = <<>>
    /\ UNCHANGED not_prng

\* val = prng.next_u16(), on both generators
PrngStep ==
    /\ p_pc = "ready"
    /\ Len(p_outs) < MaxSteps
    /\ \E r \in {next_u16(p_engine, p_regs)} :
          /\ p_prev' = p_regs
          /\ p_regs' = r[2]
          /\ p_outs' = Append(p_outs, r[1])
    /\ \E r \in {next_u16(TwinEngine(p_engine), t_regs)} :
          /\ t_regs' = r[2]
          /\ t_outs' = Append(t_outs, r[1])
    /\ UNCHANGED <<p_pc, p_engine, p_seed>>
    /\ UNCHANGED not_prng

PrngNext ==
    \/ \E engine_type \in Engines : \E seed \in Seeds : PrngNew(engine_type, seed)
    \/ PrngStep

SpecPrng == Init /\ [][PrngNext]_vars

-----------------------------------------------------------------------------
(* One call of derive_privkey_python, statement by statement *)

\* the call begins: prng is built and pool = []
PipeStart(ts, engine_type) ==
    /\ d_pc = "idle"
    /\ d_pc' = "fill"
    /\ d_engine' = engine_type
    /\ d_ts' = ts
    /\ d_prng' = NewPrng(ts, engine_type)
    /\ UNCHANGED <<d_outs, d_pool, d_raw, d_s, d_i, d_j, d_n, d_sj, d_kidx, d_key>>
    /\ UNCHANGED not_pipe

\* one turn of `while len(pool) < 256`
PipeFill ==
    /\ d_pc = "fill"
    /\ Len(d_pool) < PoolLen
    /\ \E r \in {FillStep(d_engine, <<d_pool, d_prng>>)} :
          /\ d_pool' = r[1]
          /\ d_prng' = r[2]
    /\ d_outs' = Append(d_outs, next_u16(d_engine, d_prng)[1])
    /\ UNCHANGED <<d_pc, d_engine, d_ts, d_raw, d_s, d_i, d_j, d_n, d_sj, d_kidx, d_key>>
    /\ UNCHANGED not_pipe

\* the loop is left and the timestamp is mixed into the pool
PipeWhiten ==
    /\ d_pc = "fill"
    /\ Len(d_pool) >= PoolLen
    /\ d_pc' = "cipher"
    /\ d_raw' = d_pool
    /\ d_pool' = Whiten(d_pool, d_ts)
    /\ UNCHANGED <<d_engine, d_ts, d_prng, d_outs, d_s, d_i, d_j, d_n, d_sj, d_kidx, d_key>>
    /\ UNCHANGED not_pipe

\* arc4 = ARC4(pool), up to the loop
PipeCipher ==
    /\ d_pc = "cipher"
    /\ d_pc' = "schedule"
    /\ d_s' = Range256
    /\ d_i' = 0
    /\ d_j' = 0
    /\ d_sj' = 0
    /\ d_n' = 0
    /\ UNCHANGED <<d_engine, d_ts, d_prng, d_outs, d_pool, d_raw, d_kidx, d_key>>
    /\ UNCHANGED not_pipe

\* one turn of `for i in range(256)` of ARC4.__init__
PipeSchedule ==
    /\ d_pc = "schedule"
    /\ d_n < 256
    /\ \E r \in {ScheduleStep(<<d_s, d_sj>>, d_pool, d_n)} :
          /\ d_s' = r[1]
          /\ d_sj' = r[2]
    /\ d_kidx' = d_n % Len(d_pool)
    /\ d_n' = d_n + 1
    /\ UNCHANGED <<d_pc, d_engine, d_ts, d_prng, d_outs, d_pool, d_raw, d_i, d_j, d_key>>
    /\ UNCHANGED not_pipe

\* the schedule is over; the list comprehension of the key begins
PipeScheduled ==
    /\ d_pc = "schedule"
    /\ d_n = 256
    /\ d_pc' = "stream"
    /\ UNCHANGED <<d_engine, d_ts, d_prng, d_outs, d_pool, d_raw, d_s, d_i, d_j, d_n,
                   d_sj, d_kidx, d_key>>
    /\ UNCHANGED not_pipe

\* one arc4.next_byte()
PipeByte ==
    /\ d_pc = "stream"
    /\ Len(d_key) < KeyLen
    /\ \E r \in {ARC4Next([s |-> d_s, i |-> d_i, j |-> d_j])} :
          /\ d_key' = Append(d_key, r[1])
          /\ d_s' = r[2].s
          /\ d_i' = r[2].i
          /\ d_j' = r[2].j
    /\ UNCHANGED <<d_pc, d_engine, d_ts, d_prng, d_outs, d_pool, d_raw, d_n, d_sj, d_kidx>>
    /\ UNCHANGED not_pipe

\* return privkey
PipeReturn ==
    /\ d_pc = "stream"
    /\ Len(d_key) = KeyLen
    /\ d_pc' = "done"
    /\ UNCHANGED <<d_engine, d_ts, d_prng, d_outs, d_pool, d_raw, d_s, d_i, d_j, d_n,
                   d_sj, d_kidx, d_key>>
    /\ UNCHANGED not_pipe

PipeNext ==
    \/ \E ts \in Timestamps : \E engine_type \in Engines : PipeStart(ts, engine_type)
    \/ PipeFill
    \/ PipeWhiten
    \/ PipeCipher
    \/ PipeSchedule
    \/ PipeScheduled
    \/ PipeByte
    \/ PipeReturn

SpecPipe == Init /\ [][PipeNext]_vars

-----------------------------------------------------------------------------
(* One cipher object, built from a key and stepped *)

\* the keys a cipher is built from: one byte 0, one byte 255, b'Key', five
\* bytes, and 256 bytes
CipherKeys ==
    {<<0>>, <<255>>, <<75, 101, 121>>, <<1, 2, 3, 4, 5>>, [k \in 1..256 |-> (7 * k) % 256]}

\* arc4 = ARC4(key)
CipherNew(key) ==
    /\ k_pc = "idle"
    /\ k_pc' = "ready"
    /\ k_key' = key
    /\ \E c \in {ARC4Init(key)} :
          /\ k_s' = c.s
          /\ k_i' = c.i
          /\ k_j' = c.j
    /\ k_stream' = <<>>
    /\ UNCHANGED not_cipher

\* arc4.next_byte()
CipherByte ==
    /\ k_pc = "ready"
    /\ Len(k_stream) < MaxStream
    /\ \E r \in {ARC4Next([s |-> k_s, i |-> k_i, j |-> k_j])} :
          /\ k_stream' = Append(k_stream, r[1])
          /\ k_s' = r[2].s
          /\ k_i' = r[2].i
          /\ k_j' = r[2].j
    /\ UNCHANGED <<k_pc, k_key>>
    /\ UNCHANGED not_cipher

CipherNext ==
    \/ \E key \in CipherKeys : CipherNew(key)
    \/ CipherByte

SpecCipher == Init /\ [][CipherNext]_vars

-----------------------------------------------------------------------------
(* The 256-bit transform: scans/randstorm/sim_sha.py *)

\* a 32-bit word is kept as <<high 16 bits, low 16 bits>>

RECURSIVE BitAnd(_, _)
BitAnd(a, b) ==
    IF a = 0 \/ b = 0 THEN 0
    ELSE ((a % 2) * (b % 2)) + 2 * BitAnd(a \div 2, b \div 2)

XorW(x, y) == <<BitXor(x[1], y[1]), BitXor(x[2], y[2])>>
AndW(x, y) == <<BitAnd(x[1], y[1]), BitAnd(x[2], y[2])>>

\* ~x, of which the callers keep the low 32 bits
NotW(x) == <<65535 - x[1], 65535 - x[2]>>

\* (x + y) & 0xffffffff
AddW(x, y) ==
    <<(x[1] + y[1] + ((x[2] + y[2]) \div 65536)) % 65536, (x[2] + y[2]) % 65536>>

\* x >> n for 0 < n < 16
ShrW(x, n) ==
    <<x[1] \div (2 ^ n), (x[2] \div (2 ^ n)) + (x[1] % (2 ^ n)) * (2 ^ (16 - n))>>

\* rotr(x, n) for 0 < n < 32
rotr(x, n) ==
    LET y == IF n >= 16 THEN <<x[2], x[1]>> ELSE x
        r == n % 16
    IN  IF r = 0 THEN y
        ELSE <<(y[1] \div (2 ^ r)) + (y[2] % (2 ^ r)) * (2 ^ (16 - r)),
               (y[2] \div (2 ^ r)) + (y[1] % (2 ^ r)) * (2 ^ (16 - r))>>

sigma0(x) == XorW(XorW(rotr(x, 2), rotr(x, 13)), rotr(x, 22))
sigma1(x) == XorW(XorW(rotr(x, 6), rotr(x, 11)), rotr(x, 25))
delta0(x) == XorW(XorW(rotr(x, 7), rotr(x, 18)), ShrW(x, 3))
delta1(x) == XorW(XorW(rotr(x, 17), rotr(x, 19)), ShrW(x, 10))
ch(x, y, z) == XorW(AndW(x, y), AndW(NotW(x), z))
maj(x, y, z) == XorW(XorW(AndW(x, y), AndW(x, z)), AndW(y, z))

\* the round constants
K ==
    <<
      <<17034, 12184>>, <<28983, 17553>>, <<46528, 64463>>, <<59829, 56229>>,
      <<14678, 49755>>, <<23025, 4593>>, <<37439, 33444>>, <<43804, 24277>>,
      <<55303, 43672>>, <<4739, 23297>>, <<9265, 34238>>, <<21772, 32195>>,
      <<29374, 23924>>, <<32990, 45566>>, <<39900, 1703>>, <<49563, 61812>>,
      <<58523, 27073>>, <<61374, 18310>>, <<4033, 40390>>, <<9228, 41420>>,
      <<11753, 11375>>, <<19060, 33962>>, <<23728, 43484>>, <<30457, 35034>>,
      <<38974, 20818>>, <<43057, 50797>>, <<45059, 10184>>, <<48985, 32711>>,
      <<50912, 3059>>, <<54695, 37191>>, <<1738, 25425>>, <<5161, 10599>>,
      <<10167, 2693>>, <<11803, 8504>>, <<19756, 28156>>, <<21304, 3347>>,
      <<25866, 29524>>, <<30314, 2747>>, <<33218, 51502>>, <<37490, 11397>>,
      <<41663, 59553>>, <<43034, 26187>>, <<49739, 35696>>, <<51052, 20899>>,
      <<53650, 59417>>, <<54937, 1572>>, <<62478, 13701>>, <<4202, 41072>>,
      <<6564, 49430>>, <<7735, 27656>>, <<10056, 30540>>, <<13488, 48309>>,
      <<14620, 3251>>, <<20184, 43594>>, <<23452, 51791>>, <<26670, 28659>>,
      <<29839, 33518>>, <<30885, 25455>>, <<33992, 30740>>, <<36039, 520>>,
      <<37054, 65498>>, <<42064, 27883>>, <<48889, 41975>>, <<50801, 30962>>
    >>

\* m[i] for i >= 16, m holding the i words before it (m[k] of the code is
\* m[k + 1] here)
ScheduleWord(m, i) ==
    AddW(AddW(AddW(delta1(m[i - 1]), m[i - 6]), delta0(m[i - 14])), m[i - 15])

\* one turn of the round loop on <<a, b, c, d, e, f, g, h>>, i from 0
RoundStep(v, m, i) ==
    LET t1 == AddW(AddW(AddW(AddW(v[8], sigma1(v[5])), ch(v[5], v[6], v[7])),
                        K[i + 1]), m[i + 1])
        t2 == AddW(sigma0(v[1]), maj(v[1], v[2], v[3]))
    IN  <<AddW(t1, t2), v[1], v[2], v[3], AddW(v[4], t1), v[5], v[6], v[7]>>

RECURSIVE ScheduleRange(_, _, _)
\* turns lo..hi-1 of the loop `for i in range(16, 64)`, m holding lo words: the
\* first half of the turns, then the rest on its result
ScheduleRange(m, lo, hi) ==
    IF hi <= lo THEN m
    ELSE IF hi = lo + 1 THEN Append(m, ScheduleWord(m, lo))
    ELSE LET mid == (lo + hi) \div 2
         IN  CHOOSE r \in {ScheduleRange(half, mid, hi) :
                               half \in {ScheduleRange(m, lo, mid)}} : TRUE

RECURSIVE RoundsRange(_, _, _, _)
\* turns lo..hi-1 of the loop `for i in range(64)`
RoundsRange(v, m, lo, hi) ==
    IF hi <= lo THEN v
    ELSE IF hi = lo + 1 THEN RoundStep(v, m, lo)
    ELSE LET mid == (lo + hi) \div 2
         IN  CHOOSE r \in {RoundsRange(half, m, mid, hi) :
                               half \in {RoundsRange(v, m, lo, mid)}} : TRUE

\* state[k] = (state[k] + v[k]) & 0xffffffff for the eight words
AddState(st, v) == [k \in 1..8 |-> AddW(st[k], v[k])]

\* transform(state, data): the state it leaves
transform(st, data) ==
    AddState(st, RoundsRange(st, ScheduleRange(data, 16, 64), 0, 64))

\* the initial state of both scripts
InitialState ==
    <<<<27145, 58983>>, <<47975, 44677>>, <<15470, 62322>>, <<42319, 62778>>,
      <<20750, 21119>>, <<39685, 26764>>, <<8067, 55723>>, <<23520, 52505>>>>

\* data = [0] * 16 with data[0] = 0x61626380 and data[15] = 24
AbcBlock ==
    [k \in 1..16 |-> IF k = 1 THEN <<24930, 25472>>
                     ELSE IF k = 16 THEN <<0, 24>> ELSE <<0, 0>>]

\* a word as its four bytes, high byte first
WordBytes(w) == <<w[1] \div 256, w[1] % 256, w[2] \div 256, w[2] % 256>>

\* the eight words of a state as 32 bytes
StateBytes(st) ==
    WordBytes(st[1]) \o WordBytes(st[2]) \o WordBytes(st[3]) \o WordBytes(st[4])
    \o WordBytes(st[5]) \o WordBytes(st[6]) \o WordBytes(st[7]) \o WordBytes(st[8])

\* sep.join(format(x, '08x') for x in state)
RECURSIVE JoinWords(_, _, _)
JoinWords(st, sep, k) ==
    IF k > Len(st) THEN <<>>
    ELSE (IF k > 1 THEN sep ELSE <<>>) \o hexlify(WordBytes(st[k])) \o JoinWords(st, sep, k + 1)

-----------------------------------------------------------------------------
(* hashlib.sha256, the library hash the scripts call *)

\* the round constants of FIPS 180-4: those of sim_sha.py, except that the
\* standard has 0x90befffa where the script has K[60] = 0x90beffda
KStandard == [K EXCEPT ![61] = <<37054, 65530>>]

LibRound(v, m, i) ==
    LET t1 == AddW(AddW(AddW(AddW(v[8], sigma1(v[5])), ch(v[5], v[6], v[7])),
                        KStandard[i + 1]), m[i + 1])
        t2 == AddW(sigma0(v[1]), maj(v[1], v[2], v[3]))
    IN  <<AddW(t1, t2), v[1], v[2], v[3], AddW(v[4], t1), v[5], v[6], v[7]>>

RECURSIVE LibRounds(_, _, _, _)
LibRounds(v, m, lo, hi) ==
    IF hi <= lo THEN v
    ELSE IF hi = lo + 1 THEN LibRound(v, m, lo)
    ELSE LET mid == (lo + hi) \div 2
         IN  CHOOSE r \in {LibRounds(half, m, mid, hi) :
                               half \in {LibRounds(v, m, lo, mid)}} : TRUE

\* the one block of a message of at most 55 bytes: the message, the byte 0x80,
\* zeros, and the length in bits in the last word
PadBlock(msg) ==
    LET B(j) == IF j <= Len(msg) THEN msg[j] ELSE IF j = Len(msg) + 1 THEN 128 ELSE 0
    IN  [k \in 1..16 |->
            IF k = 16 THEN <<0, 8 * Len(msg)>>
            ELSE <<256 * B(4 * k - 3) + B(4 * k - 2), 256 * B(4 * k - 1) + B(4 * k)>>]

\* hashlib.sha256(msg).digest() for a message of at most 55 bytes
sha256(msg) ==
    LET block == PadBlock(msg)
    IN  StateBytes(AddState(InitialState,
                            LibRounds(InitialState, ScheduleRange(block, 16, 64), 0, 64)))

-----------------------------------------------------------------------------
(* The two scripts that run the transform, statement by statement *)

Scripts == {"sim_sha", "check_lib"}

AbcMessage == <<97, 98, 99>>     \* b'abc'

\* the script starts: check_lib prints the library hash and then imports
\* sim_sha, whose module body runs first; both build state and data
ShaStart(script) ==
    /\ h_pc = "idle"
    /\ h_script' = script
    /\ h_import' = (script = "check_lib")
    /\ h_lines' = IF script = "check_lib"
                  THEN << <<"Hashlib: ">> \o hexlify(sha256(AbcMessage)) >>
                  ELSE <<>>
    /\ h_state' = InitialState
    /\ h_m' = <<>>
    /\ h_v' = <<>>
    /\ h_i' = 0
    /\ h_pc' = "call"
    /\ UNCHANGED not_sha

\* transform(state, data) is entered: m[i] = data[i] for i in range(16)
ShaCall ==
    /\ h_pc = "call"
    /\ h_m' = AbcBlock
    /\ h_i' = 16
    /\ h_pc' = "schedule"
    /\ UNCHANGED <<h_script, h_import, h_state, h_v, h_lines>>
    /\ UNCHANGED not_sha

\* one turn of `for i in range(16, 64)`; after the last, a..h = state
ShaSchedule ==
    /\ h_pc = "schedule"
    /\ h_m' = Append(h_m, ScheduleWord(h_m, h_i))
    /\ IF h_i = 63
       THEN h_i' = 0 /\ h_v' = h_state /\ h_pc' = "rounds"
       ELSE h_i' = h_i + 1 /\ UNCHANGED <<h_v, h_pc>>
    /\ UNCHANGED <<h_script, h_import, h_state, h_lines>>
    /\ UNCHANGED not_sha

\* one turn of `for i in range(64)`
ShaRound ==
    /\ h_pc = "rounds"
    /\ h_v' = RoundStep(h_v, h_m, h_i)
    /\ IF h_i = 63
       THEN h_i' = 0 /\ h_pc' = "add"
       ELSE h_i' = h_i + 1 /\ UNCHANGED h_pc
    /\ UNCHANGED <<h_script, h_import, h_state, h_m, h_lines>>
    /\ UNCHANGED not_sha

\* the eight additions into state, and the return
ShaAdd ==
    /\ h_pc = "add"
    /\ h_state' = AddState(h_state, h_v)
    /\ h_pc' = "print"
    /\ UNCHANGED <<h_script, h_import, h_m, h_v, h_i, h_lines>>
    /\ UNCHANGED not_sha

\* the print after the call: that of sim_sha's module body, after which
\* check_lib builds a fresh state and calls transform itself, or that of
\* check_lib
ShaPrint ==
    /\ h_pc = "print"
    /\ h_lines' = Append(h_lines,
                         IF h_script = "sim_sha" \/ h_import
                         THEN <<"Result: ">> \o JoinWords(h_state, <<" ">>, 1)
                         ELSE <<"SimSHA:  ">> \o JoinWords(h_state, <<>>, 1))
    /\ IF h_import
       THEN /\ h_import' = FALSE
            /\ h_state' = InitialState
            /\ h_pc' = "call"
       ELSE /\ h_pc' = "done"
            /\ UNCHANGED <<h_import, h_state>>
    /\ UNCHANGED <<h_script, h_m, h_v, h_i>>
    /\ UNCHANGED not_sha

\* the process ends; what it printed stays
ShaExit ==
    /\ h_pc = "done"
    /\ h_pc' = "exited"
    /\ UNCHANGED <<h_script, h_import, h_state, h_m, h_v, h_i, h_lines>>
    /\ UNCHANGED not_sha

ShaNext ==
    \/ \E script \in Scripts : ShaStart(script)
    \/ ShaCall
    \/ ShaSchedule
    \/ ShaRound
    \/ ShaAdd
    \/ ShaPrint
    \/ ShaExit

SpecSha == Init /\ [][ShaNext]_vars

-----------------------------------------------------------------------------
(* The timestamp-hash derivation: VulnerablePRNG of
   scripts/generate_test_vectors_option_a.py *)

MULTIPLIER == <<109, 230, 236, 222, 5>>     \* 25214903917
INCREMENT == <<11>>

\* 965067085636, a timestamp whose first draw leaves all ones in the low 32
\* bits of the seed
EdgeTimestamp == <<68, 23, 123, 178, 224, 0, 0, 0>>

VecTimestamps == Timestamps \cup {EdgeTimestamp}
SequenceNumbers == 0..MaxSequence

\* VulnerablePRNG.__init__: self.seed = timestamp_ms ^ sequence
SeedOf(ts, seq) == [k \in 1..8 |-> BitXor(ts[k], ToBytes(seq, 8)[k])]

\* next_random: (self.seed * MULTIPLIER + INCREMENT) & MODULUS, MODULUS being
\* 2^48 - 1
NextSeed(seed) == MulAddMask(seed, MULTIPLIER, INCREMENT, 6)

\* int(self.seed / self.MODULUS * 65536), the division and the product being
\* those of doubles: the top 16 bits of the seed, and one more where the
\* quotient rounds up to the next multiple of 2^-16
ScaleDraw(seed) ==
    LET q == U16At(seed, 5)
    IN  IF q >= 64512 /\ \A k \in 1..4 : seed[k] = 255 THEN q + 1 ELSE q

\* a slip: the seed itself is written to the buffer
DrawBytesWhole(seed) == Slice(seed, 1, 8)

\* rand_val.to_bytes(8, 'little') for the seed next_random has just left
DrawBytes(seed) == ToBytes(ScaleDraw(seed), 8)

\* prng = VulnerablePRNG(timestamp_ms, i); in generate_entropy, entropy =
\* bytearray(32) and entropy[0:8] = timestamp_ms.to_bytes(8, 'little')
VecStart(ts, seq) ==
    /\ v_pc = "idle"
    /\ Len(v_done) < MaxDerivations
    /\ v_ts' = ts
    /\ v_seq' = seq
    /\ v_seed' = SeedOf(ts, seq)
    /\ v_entropy' = [k \in 1..32 |-> IF k <= 8 THEN ts[k] ELSE 0]
    /\ v_k' = 0
    /\ v_seeds' = <<>>
    /\ v_pc' = "draw"
    /\ UNCHANGED v_done
    /\ UNCHANGED not_vec

\* one turn of `for i in range(3)`
VecDraw ==
    /\ v_pc = "draw"
    /\ \E seed \in {NextSeed(v_seed)} :
        /\ v_seed' = seed
        /\ v_seeds' = Append(v_seeds, seed)
        /\ v_entropy' = [k \in 1..32 |->
                            IF k > 8 + 8 * v_k /\ k <= 16 + 8 * v_k
                            THEN DrawBytes(seed)[k - (8 + 8 * v_k)]
                            ELSE v_entropy[k]]
    /\ v_k' = v_k + 1
    /\ v_pc' = IF v_k = 2 THEN "hash" ELSE "draw"
    /\ UNCHANGED <<v_ts, v_seq, v_done>>
    /\ UNCHANGED not_vec

\* derive_private_key: hashlib.sha256(entropy).digest(); the object is dropped
VecHash ==
    /\ v_pc = "hash"
    /\ v_done' = Append(v_done, [ts |-> v_ts, seq |-> v_seq, seeds |-> v_seeds,
                                 entropy |-> v_entropy, key |-> sha256(v_entropy)])
    /\ v_pc' = "idle"
    /\ v_ts' = <<>>
    /\ v_seq' = 0
    /\ v_seed' = <<>>
    /\ v_entropy' = <<>>
    /\ v_k' = 0
    /\ v_seeds' = <<>>
    /\ UNCHANGED not_vec

VecNext ==
    \/ \E ts \in VecTimestamps, seq \in SequenceNumbers : VecStart(ts, seq)
    \/ VecDraw
    \/ VecHash

SpecVec == Init /\ [][VecNext]_vars

-----------------------------------------------------------------------------
(* The balance monitor: scripts/check_testnet_balance.py *)

EXPECTED_AMOUNT_SATS == 100000
MAX_CHECKS == 60

\* the explorers asked in turn
NumExplorers == 2

\* the balances an explorer reports
Balances == {0, 1, EXPECTED_AMOUNT_SATS - 1, EXPECTED_AMOUNT_SATS, EXPECTED_AMOUNT_SATS + 1}

\* what one request to an explorer comes to: requests.get raises, or answers
\* with a status code and, for 200, a document whose balance key is absent
\* (<<>>) or holds a number (<<n>>)
ExplorerReplies ==
    {[raised |-> TRUE, status |-> 0, balance |-> <<>>]}
    \cup {[raised |-> FALSE, status |-> 404, balance |-> <<>>]}
    \cup {[raised |-> FALSE, status |-> 200, balance |-> b] :
             b \in {<<>>} \cup {<<n>> : n \in Balances}}

\* check_balance from explorer k on: the first balance that is not None
RECURSIVE check_balance_from(_, _)
check_balance_from(replies, k) ==
    IF k > Len(replies) THEN <<>>
    ELSE IF /\ ~replies[k].raised
            /\ replies[k].status = 200
            /\ replies[k].balance # <<>>
         THEN replies[k].balance
         ELSE check_balance_from(replies, k + 1)

check_balance(replies) == check_balance_from(replies, 1)

\* the test of the first branch with > 0 in place of >= EXPECTED_AMOUNT_SATS
FundedWhenPositive(balance) == balance # <<>> /\ balance[1] > 0

\* balance is not None and balance >= EXPECTED_AMOUNT_SATS
Funded(balance) == balance # <<>> /\ balance[1] >= EXPECTED_AMOUNT_SATS

\* checks = 0; funded = False
MonitorStart ==
    /\ m_pc = "idle"
    /\ m_pc' = "loop"
    /\ m_checks' = 0
    /\ m_funded' = FALSE
    /\ UNCHANGED <<m_balance, m_sleeps, m_slept, m_writes, m_result>>
    /\ UNCHANGED not_monitor

\* one turn of the while loop
MonitorCheck(replies) ==
    /\ m_pc = "loop"
    /\ m_checks < MAX_CHECKS /\ ~m_funded
    /\ m_checks' = m_checks + 1
    /\ m_balance' = check_balance(replies)
    /\ IF Funded(m_balance')
       THEN /\ m_writes' = m_writes + 1
            /\ m_funded' = TRUE
            /\ m_result' = <<0>>
            /\ m_pc' = "returned"
            /\ UNCHANGED <<m_sleeps, m_slept>>
       ELSE /\ IF m_checks' < MAX_CHECKS /\ ~m_funded
               THEN /\ m_sleeps' = m_sleeps + 1
                    /\ m_slept' = m_checks'
               ELSE UNCHANGED <<m_sleeps, m_slept>>
            /\ UNCHANGED <<m_pc, m_funded, m_writes, m_result>>
    /\ UNCHANGED not_monitor

\* the loop is left by its condition
MonitorTimeout ==
    /\ m_pc = "loop"
    /\ ~(m_checks < MAX_CHECKS /\ ~m_funded)
    /\ m_result' = IF ~m_funded THEN <<1>> ELSE <<"None">>
    /\ m_pc' = "returned"
    /\ UNCHANGED <<m_checks, m_funded, m_balance, m_sleeps, m_slept, m_writes>>
    /\ UNCHANGED not_monitor

MonitorNext ==
    \/ MonitorStart
    \/ \E replies \in [1..NumExplorers -> ExplorerReplies] : MonitorCheck(replies)
    \/ MonitorTimeout

SpecMonitor == Init /\ [][MonitorNext]_vars

\* every request ends (timeout=10) and every sleep ends, so the script goes on
\* for as long as it has a step to take
SpecMonitorFair == SpecMonitor /\ WF_vars(MonitorNext)

-----------------------------------------------------------------------------
(* The word indices of an entropy: mt19937_test of scripts/test_cpu_reference.py *)

\* what the script's generator, random.Random(1668384000), gives as entropy
ScriptEntropy == <<219, 234, 247, 203, 178, 173, 76, 179, 42, 15, 152, 224, 32, 11, 228, 234>>

\* the entropies of the model
Entropies ==
    {ScriptEntropy,
     [k \in 1..16 |-> 0],
     [k \in 1..16 |-> 255],
     [k \in 1..16 |-> k - 1],
     [k \in 1..16 |-> (17 * k) % 256],
     [k \in 1..16 |-> IF k % 2 = 0 THEN 170 ELSE 85],
     [k \in 1..16 |-> IF k = 16 THEN 127 ELSE 0],
     [k \in 1..16 |-> IF k = 1 THEN 128 ELSE 0],
     [k \in 1..16 |-> IF k = 16 THEN 128 ELSE 255]}

\* bit k, counted from the least significant, of int.from_bytes(entropy, 'big')
EntropyBit(entropy, k) ==
    IF k >= 8 * Len(entropy) THEN 0
    ELSE (entropy[Len(entropy) - (k \div 8)] \div (2 ^ (k % 8))) % 2

\* (int.from_bytes(entropy, 'big') >> bit_pos) & (2^width - 1), bit_pos >= 0
RECURSIVE ShiftAndMask(_, _, _)
ShiftAndMask(entropy, bit_pos, width) ==
    IF width = 0 THEN 0
    ELSE EntropyBit(entropy, bit_pos) + 2 * ShiftAndMask(entropy, bit_pos + 1, width - 1)

\* the entropy and its checksum: the top nibble of the first byte of the hash
IndicesStart(entropy) ==
    /\ e_pc = "idle"
    /\ e_pc' = "hashed"
    /\ e_entropy' = entropy
    /\ e_checksum' = (sha256(entropy)[1] \div 16) % 16
    /\ e_indices' = <<>>
    /\ e_error' = ""
    /\ UNCHANGED not_indices

\* one turn of the loop over range(11)
IndicesExtract ==
    /\ e_pc = "hashed"
    /\ Len(e_indices) < 11
    /\ LET i == Len(e_indices)
           bit_pos == 128 - (i + 1) * 11
       IN  e_indices' = Append(e_indices, ShiftAndMask(e_entropy, bit_pos, 11))
    /\ UNCHANGED <<e_pc, e_entropy, e_checksum, e_error>>
    /\ UNCHANGED not_indices

\* the last index: a shift by 128 - 12 * 11, and a shift by a negative count
\* raises ValueError
IndicesLast ==
    /\ e_pc = "hashed"
    /\ Len(e_indices) = 11
    /\ LET bit_pos == 128 - 12 * 11
       IN  IF bit_pos < 0
           THEN /\ e_pc' = "raised"
                /\ e_error' = "ValueError"
                /\ UNCHANGED e_indices
           ELSE /\ e_indices' = Append(e_indices,
                                       ShiftAndMask(e_entropy, bit_pos, 7) * 16 + e_checksum)
                /\ e_pc' = "returned"
                /\ UNCHANGED e_error
    /\ UNCHANGED <<e_entropy, e_checksum>>
    /\ UNCHANGED not_indices

IndicesNext ==
    \/ \E entropy \in Entropies : IndicesStart(entropy)
    \/ IndicesExtract
    \/ IndicesLast

SpecIndices == Init /\ [][IndicesNext]_vars

-----------------------------------------------------------------------------
(* The comparison of GPU output with the reference: validate_gpu.py *)

MaxFileLines == 2       \* lines of a reference file and of a GPU output file

\* the lines a reference file may hold: a comment, three entries of which the
\* third has the entropy of the first, and a line of three fields
RefLines ==
    {<<"#", " Format: SEED,ENTROPY,MNEMONIC,ADDRESS", "\n">>,
     <<"s1", ",", "e1", ",", "m1", ",", "2", "\n">>,
     <<"s2", ",", "e2", ",", "m2", ",", "1", "z", "\n">>,
     <<"s3", ",", "e1", ",", "m3", ",", "2", "1", "\n">>,
     <<"s4", ",", "e4", ",", "m4", "\n">>}

\* the lines a GPU output file may hold: addresses in hex, one of them empty,
\* and a line of another kind
GpuLines ==
    {<<"ADDRESS:", "0", "1", "\n">>,
     <<"ADDRESS:", " ", "0", "0", "3", "9", "\n">>,
     <<"ADDRESS:", "3", "a", "\n">>,
     <<"ADDRESS:", "\n">>,
     <<"Scanning...", "\n">>}

RefFiles == SeqsUpTo(RefLines, MaxFileLines)
GpuFiles == SeqsUpTo(GpuLines, MaxFileLines)

\* ref_addresses[entropy] = {...}: a key already there keeps its place
PutEntry(dict, entry) ==
    IF \E k \in 1..Len(dict) : dict[k].entropy = entry.entropy
    THEN [k \in 1..Len(dict) |->
             IF dict[k].entropy = entry.entropy THEN entry ELSE dict[k]]
    ELSE Append(dict, entry)

\* line.strip().split('ADDRESS:')[1] of a line that starts with the marker:
\* the text between the first marker and the next one
RECURSIVE UpToMarker(_)
UpToMarker(str) ==
    IF str = <<>> THEN <<>>
    ELSE IF Head(str) = "ADDRESS:" THEN <<>>
    ELSE <<Head(str)>> \o UpToMarker(Tail(str))

HexAddr(line) == Strip(UpToMarker(Tail(Strip(line))))

\* whether bytes.fromhex takes the text: pairs of hex digits
IsHex(str) ==
    /\ Len(str) % 2 = 0
    /\ \A k \in 1..Len(str) : \E v \in 1..16 : HexDigits[v] = str[k]

HexValue(c) == (CHOOSE v \in 1..16 : HexDigits[v] = c) - 1

\* bytes.fromhex(str)
fromhex(str) == [k \in 1..(Len(str) \div 2) |->
                    16 * HexValue(str[2 * k - 1]) + HexValue(str[2 * k])]

Base58Alphabet ==
    <<"1", "2", "3", "4", "5", "6", "7", "8", "9", "A", "B", "C", "D", "E", "F", "G", "H",
      "J", "K", "L", "M", "N", "P", "Q", "R", "S", "T", "U", "V", "W", "X", "Y", "Z", "a",
      "b", "c", "d", "e", "f", "g", "h", "i", "j", "k", "m", "n", "o", "p", "q", "r", "s",
      "t", "u", "v", "w", "x", "y", "z">>

RECURSIVE LeadingZeros(_)
LeadingZeros(bs) ==
    IF bs = <<>> THEN 0
    ELSE IF Head(bs) = 0 THEN 1 + LeadingZeros(Tail(bs)) ELSE 0

RECURSIVE BigEndian(_)
BigEndian(bs) ==
    IF bs = <<>> THEN 0 ELSE 256 * BigEndian(SubSeq(bs, 1, Len(bs) - 1)) + bs[Len(bs)]

RECURSIVE Digits58(_)
Digits58(n) ==
    IF n = 0 THEN <<>> ELSE Digits58(n \div 58) \o <<Base58Alphabet[(n % 58) + 1]>>

\* Base58Encoder.Encode(addr_bytes): a "1" for every leading zero byte, then
\* the number in base 58
Base58Encode(bs) == [k \in 1..LeadingZeros(bs) |-> "1"] \o Digits58(BigEndian(bs))

\* open(ref_file) succeeds
CompareOpenRef(ref) ==
    /\ x_pc = "idle"
    /\ x_pc' = "reference"
    /\ x_ref' = ref
    /\ x_ref_addresses' = <<>>
    /\ x_pos' = 0
    /\ UNCHANGED <<x_gpu, x_gpu_addresses, x_matches, x_mismatches, x_error, x_result>>
    /\ UNCHANGED not_compare

\* one line of the reference file
CompareRefLine ==
    /\ x_pc = "reference"
    /\ x_pos < Len(x_ref)
    /\ x_pos' = x_pos + 1
    /\ LET line == x_ref[x_pos + 1]
           parts == SplitComma(Strip(line))
       IN  x_ref_addresses' =
               IF Head(line) = "#" THEN x_ref_addresses
               ELSE IF Len(parts) = 4
                    THEN PutEntry(x_ref_addresses,
                                  [entropy |-> parts[2], seed |-> parts[1],
                                   mnemonic |-> parts[3], address |-> parts[4]])
                    ELSE x_ref_addresses
    /\ UNCHANGED <<x_pc, x_ref, x_gpu, x_gpu_addresses, x_matches, x_mismatches, x_error,
                   x_result>>
    /\ UNCHANGED not_compare

\* the reference is loaded and open(gpu_file) succeeds
CompareOpenGpu(gpu) ==
    /\ x_pc = "reference"
    /\ x_pos = Len(x_ref)
    /\ x_pc' = "gpu"
    /\ x_gpu' = gpu
    /\ x_gpu_addresses' = <<>>
    /\ x_pos' = 0
    /\ UNCHANGED <<x_ref, x_ref_addresses, x_matches, x_mismatches, x_error, x_result>>
    /\ UNCHANGED not_compare

\* open raises FileNotFoundError, for either file: the handler returns False
CompareNoFile ==
    /\ \/ x_pc = "idle"
       \/ x_pc = "reference" /\ x_pos = Len(x_ref)
    /\ x_pc' = "returned"
    /\ x_error' = "FileNotFoundError"
    /\ x_result' = <<FALSE>>
    /\ UNCHANGED <<x_ref, x_gpu, x_pos, x_ref_addresses, x_gpu_addresses, x_matches,
                   x_mismatches>>
    /\ UNCHANGED not_compare

\* one line of the GPU output
CompareGpuLine ==
    /\ x_pc = "gpu"
    /\ x_pos < Len(x_gpu)
    /\ LET line == x_gpu[x_pos + 1]
           hex_addr == HexAddr(line)
       IN  IF Head(line) # "ADDRESS:"
           THEN /\ x_pos' = x_pos + 1
                /\ UNCHANGED <<x_pc, x_gpu_addresses, x_error>>
           ELSE IF ~IsHex(hex_addr)   \* bytes.fromhex raises
           THEN /\ x_pc' = "raised"
                /\ x_error' = "ValueError"
                /\ UNCHANGED <<x_pos, x_gpu_addresses>>
           ELSE /\ x_pos' = x_pos + 1
                /\ x_gpu_addresses' = Append(x_gpu_addresses, Base58Encode(fromhex(hex_addr)))
                /\ UNCHANGED <<x_pc, x_error>>
    /\ UNCHANGED <<x_ref, x_gpu, x_ref_addresses, x_matches, x_mismatches, x_result>>
    /\ UNCHANGED not_compare

\* the GPU addresses are loaded: matches = 0; mismatches = 0
CompareLoaded ==
    /\ x_pc = "gpu"
    /\ x_pos = Len(x_gpu)
    /\ x_pc' = "compare"
    /\ x_pos' = 0
    /\ x_matches' = 0
    /\ x_mismatches' = 0
    /\ UNCHANGED <<x_ref, x_gpu, x_ref_addresses, x_gpu_addresses, x_error, x_result>>
    /\ UNCHANGED not_compare

\* one turn of the loop over enumerate(gpu_addresses)
CompareAddress ==
    /\ x_pc = "compare"
    /\ x_pos < Len(x_gpu_addresses)
    /\ x_pos' = x_pos + 1
    /\ LET i == x_pos
           gpu_addr == x_gpu_addresses[i + 1]
       IN  IF i < Len(x_ref_addresses)
           THEN IF gpu_addr = x_ref_addresses[i + 1].address
                THEN x_matches' = x_matches + 1 /\ UNCHANGED x_mismatches
                ELSE x_mismatches' = x_mismatches + 1 /\ UNCHANGED x_matches
           ELSE UNCHANGED <<x_matches, x_mismatches>>
    /\ UNCHANGED <<x_pc, x_ref, x_gpu, x_ref_addresses, x_gpu_addresses, x_error, x_result>>
    /\ UNCHANGED not_compare

\* the accuracy is printed, 100 * matches / (matches + mismatches), and the
\* verdict returned
CompareReport ==
    /\ x_pc = "compare"
    /\ x_pos = Len(x_gpu_addresses)
    /\ IF x_matches + x_mismatches = 0
       THEN /\ x_pc' = "raised"
            /\ x_error' = "ZeroDivisionError"
            /\ UNCHANGED x_result
       ELSE /\ x_pc' = "returned"
            /\ x_result' = <<x_matches = Len(x_gpu_addresses) /\ x_mismatches = 0>>
            /\ UNCHANGED x_error
    /\ UNCHANGED <<x_ref, x_gpu, x_pos, x_ref_addresses, x_gpu_addresses, x_matches,
                   x_mismatches>>
    /\ UNCHANGED not_compare

CompareNext ==
    \/ \E ref \in RefFiles : CompareOpenRef(ref)
    \/ CompareRefLine
    \/ \E gpu \in GpuFiles : CompareOpenGpu(gpu)
    \/ CompareNoFile
    \/ CompareGpuLine
    \/ CompareLoaded
    \/ CompareAddress
    \/ CompareReport

SpecCompare == Init /\ [][CompareNext]_vars

-----------------------------------------------------------------------------
(* Key extraction is deterministic and history-free *)

-----------------------------------------------------------------------------
(* When the parity run stops early *)

-----------------------------------------------------------------------------
(* The persisted filter answers for its corpus *)

\* the stripped lines of the corpus the filter was built from
Inserted == {Strip(corpus_file.lines[k]) : k \in 1..Len(corpus_file.lines)}

\* C2: once construct_bloom_filter has built and saved the filter from a corpus,
\* check_address on the saved filter answers True for every stripped line of
\* that corpus; False is answered only for a string that was not inserted.
C2_NoFalseNegative ==
    (filter_file.exists /\ last_check.asked)
        => /\ last_check.address \in Inserted => last_check.answer
           /\ ~last_check.answer => last_check.address \notin Inserted

\* an address whose corpus line differs from it by blanks and the line end was
\* asked for and found
C2_Witness ==
    /\ filter_file.exists
    /\ last_check.asked
    /\ last_check.answer
    /\ last_check.address \in Inserted
    /\ \A k \in 1..Len(corpus_file.lines) : corpus_file.lines[k] # last_check.address

\* C8: the filter is built with the capacity and the error rate the caller
\* gave, so builds asked for with different parameters differ in them.
C8_BuiltAsRequested ==
    filter_file.exists
        => /\ requested.given
           /\ Unpickle(filter_file.blob).capacity = requested.capacity
           /\ Unpickle(filter_file.blob).error_rate = requested.error_rate

-----------------------------------------------------------------------------
(* The batch query over a CSV *)

\* every row of the CSV has at least the two fields id and address
WellFormed ==
    \A k \in 1..Len(csv_file.lines) : Len(CsvSplit(csv_file.lines[k])) >= 2

\* the rows of the CSV from position lo to position hi, as positions
RECURSIVE Positions(_, _)
Positions(lo, hi) == IF lo > hi THEN <<>> ELSE <<lo>> \o Positions(lo + 1, hi)

\* the hits of the full run that lie after the first n rows
RECURSIVE HitsAfter(_, _)
HitsAfter(hits, n) ==
    IF hits = <<>> THEN <<>>
    ELSE IF Head(hits)[1] > n THEN <<Head(hits)>> \o HitsAfter(Tail(hits), n)
    ELSE HitsAfter(Tail(hits), n)

\* C6: a row of fewer than two fields, an empty row included, is skipped and
\* every later row is queried: the batch never aborts because of such a row.
C6_MalformedRowSkipped ==
    /\ c_pc # "crashed"
    /\ c_pc = "done" =>
          \A k \in (c_skip + 1)..Len(csv_file.lines) :
              Len(CsvSplit(csv_file.lines[k])) >= 2
                  => \E q \in 1..Len(c_queried) : c_queried[q] = k

\* C7: over a CSV of well-formed rows, a run with skip_lines = n queries the
\* rows after the first n in order and none of the first n, reports the hits of
\* the full run that lie after the first n rows, and counts the skipped rows in
\* i, which is the absolute line number.
C7_ResumesFromOffset ==
    (csv_file.exists /\ WellFormed /\ c_pc \in {"rows", "done"})
        => /\ c_queried = Positions(c_skip + 1, c_pos)
           /\ c_i = c_pos
           /\ c_found = Len(c_hits)
           /\ (c_pc = "done" /\ full_run.done)
                 => /\ c_hits = HitsAfter(full_run.hits, c_skip)
                    /\ c_i = full_run.i

\* a resumed run is over: rows were skipped, a hit of the full run was among
\* them and another one came after them
C7_Witness ==
    /\ csv_file.exists
    /\ WellFormed
    /\ c_pc = "done"
    /\ full_run.done
    /\ c_skip > 0
    /\ c_skip < Len(csv_file.lines)
    /\ c_hits # <<>>
    /\ Len(c_hits) < Len(full_run.hits)

-----------------------------------------------------------------------------
(* What the scan writes for a hit *)

\* the balance query of a hit failed: an exception, a timeout, or an answer that
\* is an error (a status other than 200, or no result)
Failed(reply) ==
    \/ reply.kind \in {"exception", "timeout"}
    \/ reply.kind = "http" /\ (reply.status # 200 \/ ~reply.result)

\* C4: a hit whose balance query failed is written to the unverified log,
\* never to the empty or the confirmed log, and the scan goes on.
C4_FailureIsUnverified ==
    \A k \in 1..Len(s_last.hits) :
        Failed(s_last.hits[k].reply)
            => s_last.hits[k].log = "unverified" /\ scan_pc # "crashed"

\* the three logs as they are
LogsNow ==
    [unverified |-> log_unverified, confirmed |-> log_confirmed, empty |-> log_empty]

\* the log a returned balance belongs in
Outcome(balance) ==
    IF balance.none THEN "unverified"
    ELSE IF balance.value > 0 THEN "confirmed" ELSE "empty"

\* C5: every hit of a line adds one line to one log, the confirmed log iff the
\* balance returned is above 0, the unverified log iff it is None, the empty log
\* otherwise; a line without a hit adds nothing, and what the logs held before
\* the line is still there, unchanged.
C5_OneLinePerHit ==
    /\ Len(s_last.hits) = Cardinality(HitSet(s_last.line))
    /\ \A L \in {"unverified", "confirmed", "empty"} :
          LET into == {k \in 1..Len(s_last.hits) : Outcome(s_last.hits[k].balance) = L}
              old == Len(s_before[L])
          IN  /\ Len(LogsNow[L]) = old + Cardinality(into)
              /\ SubSeq(LogsNow[L], 1, old) = s_before[L]
              /\ \A j \in (old + 1)..Len(LogsNow[L]) :
                    \E k \in into : \E t \in 1..Len(LogsNow[L][j]) :
                        LogsNow[L][j][t] = s_last.hits[k].address

\* the two hits of one mnemonic went to different logs, one of them the
\* confirmed log, after an earlier line had left a hit in the unverified log
C5_Witness ==
    /\ Len(s_last.hits) = 2
    /\ s_last.hits[1].log # s_last.hits[2].log
    /\ \E k \in 1..2 : s_last.hits[k].log = "confirmed"
    /\ s_before.unverified # <<>>

-----------------------------------------------------------------------------
(* What the kernel generator emits *)

-----------------------------------------------------------------------------
(* The generators, step by step *)

\* the value of a 4-byte register that is below 2^31
Val32(x) == U16At(x, 1) + 65536 * U16At(x, 3)

\* C11: a V8 generator built from a seed with a zero low or high half returns,
\* call after call, what the generator built from the seed with 1 in that half
\* returns; building it raises nothing.
C11_ZeroHalfIsOne ==
    (p_pc = "ready" /\ p_engine = "v8")
        => /\ p_outs = t_outs
           /\ p_regs = t_regs
           /\ ~IsZero(p_regs.s1)
           /\ ~IsZero(p_regs.s2)

\* the generator built from the seed 0 has been stepped to the bound
C11_Witness ==
    /\ p_pc = "ready"
    /\ p_engine = "v8"
    /\ IsZero(p_seed)
    /\ Len(p_outs) = MaxSteps
    /\ TwinSeed(p_seed) # p_seed

\* C15: a V8 generator starts with s1 the low and s2 the high 32 bits of the
\* seed (1 for a zero half); each call sets s1 = 18000 * (s1 & 0xFFFF) +
\* (s1 >> 16) and s2 = 30903 * (s2 & 0xFFFF) + (s2 >> 16), both mod 2^32, and
\* returns the high 16 bits of ((s1 << 16) + s2) mod 2^32, a value in 0..65535.
C15_V8Step ==
    (p_pc = "ready" /\ p_engine = "v8")
        => /\ p_outs = <<>> =>
                 /\ p_regs.s1 = Slice(TwinSeed(p_seed), 1, 4)
                 /\ p_regs.s2 = Slice(TwinSeed(p_seed), 5, 8)
           /\ p_outs # <<>> =>
                 /\ Val32(p_regs.s1) = 18000 * U16At(p_prev.s1, 1) + U16At(p_prev.s1, 3)
                 /\ Val32(p_regs.s2) = 30903 * U16At(p_prev.s2, 1) + U16At(p_prev.s2, 3)
                 /\ p_outs[Len(p_outs)] =
                        (U16At(p_regs.s1, 1) + U16At(p_regs.s2, 3)) % 65536
           /\ \A n \in 1..Len(p_outs) : p_outs[n] \in 0..65535

\* a V8 generator whose registers had a carry in the high half was stepped
C15_Witness ==
    /\ p_pc = "ready"
    /\ p_engine = "v8"
    /\ Len(p_outs) >= 2
    /\ U16At(p_prev.s1, 3) > 0
    /\ U16At(p_prev.s2, 3) > 0

\* C16: the platform generator starts with the low 48 bits of the seed as its
\* state, unscrambled; each call sets state = (state * 0x5DEECE66D + 0xB) mod
\* 2^48 and returns bits 16..31 of the new state; the state stays within 48
\* bits; 'java' and 'ie' name the same generator.
C16_JavaStep ==
    (p_pc = "ready" /\ p_engine \in {"java", "ie"})
        => /\ p_outs = <<>> => p_regs.state = Slice(p_seed, 1, 6)
           /\ p_outs # <<>> =>
                 /\ p_regs.state =
                        MulAddMask(p_prev.state, <<109, 230, 236, 222, 5>>, <<11>>, 6)
                 /\ p_outs[Len(p_outs)] = p_regs.state[3] + 256 * p_regs.state[4]
           /\ (p_seed = BaseTimestamp /\ Len(p_outs) = 1)
                 => p_regs.state = <<75, 95, 204, 106, 173, 176>> /\ p_outs = <<27340>>
           /\ (p_seed = BaseTimestamp /\ Len(p_outs) = 2)
                 => p_regs.state = <<250, 244, 197, 249, 75, 147>>
           /\ Len(p_regs.state) = 6
           /\ \A k \in 1..6 : p_regs.state[k] \in 0..255
           /\ p_outs = t_outs
           /\ p_regs = t_regs

\* the generator named 'ie' was built from a seed wider than 48 bits and stepped
C16_Witness ==
    /\ p_pc = "ready"
    /\ p_engine = "ie"
    /\ Len(p_outs) >= 2
    /\ p_seed[7] # 0

\* bits 16..30 of a 32-bit state: (state >> 16) & 0x7FFF
Bits16To30(state) == U16At(state, 3) % 32768

\* the high 15 bits of a 32-bit state: state >> 17
High15(state) == U16At(state, 3) \div 2

\* C17, as stated: each output takes two successive steps of state = (state *
\* 214013 + 2531011) mod 2^32, each yielding the high 15 bits of the state; the
\* output is bits 14..29 of the first result followed by the second.
C17_HighFifteenBits ==
    (p_pc = "ready" /\ p_engine = "safari-win" /\ p_outs # <<>>)
        => LET state1 == MulAddMask(p_prev.state, <<253, 67, 3>>, <<195, 158, 38>>, 4)
               state2 == MulAddMask(state1, <<253, 67, 3>>, <<195, 158, 38>>, 4)
           IN  /\ p_regs.state = state2
               /\ p_outs[Len(p_outs)] =
                      ((High15(state1) * 32768 + High15(state2)) \div 16384) % 65536

\* C17, amended: each output takes two successive steps of state = (state *
\* 214013 + 2531011) mod 2^32, each yielding bits 16..30 of the state, that is
\* (state >> 16) & 0x7FFF; the output is bits 14..29 of the first result
\* followed by the second, a value in 0..65535.
C17_CrtTwoSteps ==
    (p_pc = "ready" /\ p_engine = "safari-win")
        => /\ p_outs = <<>> => p_regs.state = Slice(p_seed, 1, 4)
           /\ p_outs # <<>> =>
                 LET state1 == MulAddMask(p_prev.state, <<253, 67, 3>>, <<195, 158, 38>>, 4)
                     state2 == MulAddMask(state1, <<253, 67, 3>>, <<195, 158, 38>>, 4)
                 IN  /\ p_regs.state = state2
                     /\ p_outs[Len(p_outs)] =
                            ((Bits16To30(state1) * 32768 + Bits16To30(state2))
                                 \div 16384) % 65536
           /\ (p_seed = BaseTimestamp /\ Len(p_outs) = 1) => p_outs = <<48603>>
           /\ \A n \in 1..Len(p_outs) : p_outs[n] \in 0..65535

\* the generator was stepped from a state whose top bit and bit 16 differ from
\* what a shift by 17 would read
C17_Witness ==
    /\ p_pc = "ready"
    /\ p_engine = "safari-win"
    /\ Len(p_outs) >= 2
    /\ Bits16To30(p_regs.state) # High15(p_regs.state)

-----------------------------------------------------------------------------
(* How the parity run ends *)

-----------------------------------------------------------------------------
(* The pool, its whitening and the key, statement by statement *)

\* C18: the pool is the generator's 16-bit outputs as bytes, high byte first:
\* output k (from 0) is in pool[2k] and pool[2k+1]; the pool never grows beyond
\* 256 bytes and is full after exactly 128 next_u16 calls, for every engine.
C18_PoolIsOutputsHighFirst ==
    LET pool == IF d_pc = "fill" THEN d_pool ELSE d_raw
    IN  d_pc # "idle"
            => /\ Len(pool) <= 256
               /\ Len(pool) = 2 * Len(d_outs)
               /\ \A k \in 0..(Len(d_outs) - 1) :
                     /\ pool[2 * k + 1] = d_outs[k + 1] \div 256
                     /\ pool[2 * k + 2] = d_outs[k + 1] % 256
                     /\ d_outs[k + 1] \in 0..65535
               /\ d_pc # "fill" => Len(pool) = 256 /\ Len(d_outs) = 128
               /\ Len(d_pool) <= 256

\* a pool was filled by a generator whose outputs have a high byte that differs
\* from the low byte
C18_Witness ==
    /\ d_pc = "cipher"
    /\ d_engine = "safari-win"
    /\ Len(d_outs) = 128
    /\ d_outs[128] \div 256 # d_outs[128] % 256

\* bit b of a byte
BitOf(x, b) == (x \div (2 ^ b)) % 2

\* C19: whitening changes the first four bytes of the pool only: byte i becomes
\* the exclusive or of the generator's byte and byte i of the little-endian
\* timestamp; bytes 4..255 stay as they were and the length stays 256.
C19_WhitenFirstFour ==
    d_pc \in {"cipher", "schedule", "stream", "done"}
        => /\ Len(d_pool) = 256
           /\ Len(d_raw) = 256
           /\ \A i \in 1..4 : \A b \in 0..7 :
                 BitOf(d_pool[i], b) = (BitOf(d_raw[i], b) + BitOf(d_ts[i], b)) % 2
           /\ \A i \in 5..256 : d_pool[i] = d_raw[i]

\* a pool was whitened with a timestamp whose bytes 0..5 are not zero
C19_Witness ==
    /\ d_pc = "cipher"
    /\ \A i \in 1..6 : d_ts[i] # 0
    /\ \A i \in 1..4 : d_pool[i] # d_raw[i]

\* C20: the key is the first 32 keystream bytes of the cipher keyed with the
\* whole whitened pool: the key setup makes 256 swaps, step i reading key byte
\* i; the keystream starts from i = j = 0, nothing is discarded, and key byte n
\* is produced at index i = n.
C20_FirstKeystreamBytes ==
    /\ d_pc = "schedule" =>
          /\ d_n <= 256
          /\ d_n > 0 => d_kidx = d_n - 1
          /\ d_i = 0 /\ d_j = 0 /\ d_key = <<>>
    /\ d_pc \in {"stream", "done"} =>
          /\ d_n = 256
          /\ d_kidx = 255
          /\ d_i = Len(d_key)
          /\ Len(d_key) <= 32
          /\ d_key = <<>> => d_j = 0
          /\ d_key # <<>> =>
                d_key[Len(d_key)] = d_s[((d_s[d_i + 1] + d_s[d_j + 1]) % 256) + 1]
    /\ d_pc = "done" =>
          /\ Len(d_key) = 32
          /\ d_key = derive_privkey_python(d_ts, d_engine).bytes
          /\ (d_ts = BaseTimestamp /\ d_engine = "v8") =>
                d_key = <<66, 154, 248, 249, 234, 131, 28, 1, 199, 233, 206, 105, 26, 72, 26, 60,
                        54, 148, 74, 209, 44, 232, 223, 17, 58, 173, 1, 24, 181, 134, 105, 67>>
          /\ (d_ts = BaseTimestamp /\ d_engine = "safari-win") =>
                d_key = <<212, 178, 104, 240, 107, 211, 213, 74, 25, 195, 121, 32, 14, 195, 85, 3,
                        37, 75, 10, 168, 240, 77, 78, 203, 138, 120, 147, 0, 168, 123, 83, 201>>

\* a key was returned for the base timestamp
C20_Witness ==
    /\ d_pc = "done"
    /\ d_ts = BaseTimestamp
    /\ d_engine = "v8"
    /\ Len(d_key) = 32

-----------------------------------------------------------------------------
(* The transform against the published digest *)

\* C13: once transform has returned for the standard initial state and the
\* block of "abc", state holds the canonical digest ba7816bf...f20015ad, which
\* is also the value the library hash gives.
C13_AbcDigest ==
    h_pc = "print" =>
        /\ StateBytes(h_state) =
               <<186, 120, 22, 191, 143, 1, 207, 234, 65, 65, 64, 222, 93, 174, 34, 35,
                 176, 3, 97, 163, 150, 23, 122, 156, 180, 16, 255, 97, 242, 0, 21, 173>>
        /\ StateBytes(h_state) = sha256(AbcMessage)


-----------------------------------------------------------------------------
(* The timestamp-hash derivation *)

\* the 8 bytes of the buffer that the k-th draw (k = 0, 1, 2) filled
DrawField(rec, k) == Slice(rec.entropy, 9 + 8 * k, 16 + 8 * k)

\* C12 as stated: the buffer starts with the timestamp and each of its three
\* other fields holds the 48-bit state of the generator after the draw, widened
\* to 8 bytes.
C12_DrawsWidened ==
    \A n \in 1..Len(v_done) :
        /\ Slice(v_done[n].entropy, 1, 8) = v_done[n].ts
        /\ \A k \in 0..2 : DrawField(v_done[n], k) = Slice(v_done[n].seeds[k + 1], 1, 8)

\* C12, amended: the buffer has 32 bytes and starts with the little-endian
\* timestamp; the generator starts from timestamp XOR sequenceIndex and steps
\* as state * 25214903917 + 11 mod 2^48; each of the three other fields holds,
\* widened to 8 bytes, not the state but its top 16 bits (state >> 32), one
\* more when the low 32 bits are all ones and the top 16 are at least 64512;
\* the key has 32 bytes, is the value Python gives for the inputs tried there,
\* and is the same for the same (timestamp, sequenceIndex).
C12_ScaledDraws ==
    /\ \A n \in 1..Len(v_done) :
        LET rec == v_done[n] IN
        /\ Len(rec.entropy) = 32
        /\ Slice(rec.entropy, 1, 8) = rec.ts
        /\ Len(rec.seeds) = 3
        /\ rec.seeds[1] = MulAddMask(SeedOf(rec.ts, rec.seq), <<109, 230, 236, 222, 5>>,
                                     <<11>>, 6)
        /\ \A k \in 1..2 :
               rec.seeds[k + 1] = MulAddMask(rec.seeds[k], <<109, 230, 236, 222, 5>>,
                                             <<11>>, 6)
        /\ \A k \in 0..2 :
               LET seed == rec.seeds[k + 1]
                   top == seed[5] + 256 * seed[6]
                   up == top >= 64512 /\ seed[1] = 255 /\ seed[2] = 255
                         /\ seed[3] = 255 /\ seed[4] = 255
               IN  /\ U16At(DrawField(rec, k), 1) + 65536 * DrawField(rec, k)[3]
                          = top + (IF up THEN 1 ELSE 0)
                   /\ \A j \in 4..8 : DrawField(rec, k)[j] = 0
        /\ Len(rec.key) = 32
        /\ (rec.ts = BaseTimestamp /\ rec.seq = 0) =>
               /\ rec.entropy = <<64, 84, 115, 149, 67, 1, 0, 0, 173, 176, 0, 0, 0, 0, 0, 0,
                                  75, 147, 0, 0, 0, 0, 0, 0, 145, 175, 0, 0, 0, 0, 0, 0>>
               /\ rec.key = <<158, 204, 57, 15, 101, 236, 76, 169, 220, 190, 189, 118, 159,
                              18, 74, 231, 164, 218, 214, 171, 208, 138, 207, 25, 144, 240,
                              146, 117, 128, 71, 108, 243>>
        /\ (rec.ts = BaseTimestamp /\ rec.seq = 1) =>
               rec.key = <<114, 58, 213, 52, 166, 210, 254, 100, 194, 49, 33, 62, 150, 45,
                           151, 246, 159, 51, 161, 38, 245, 146, 152, 73, 104, 71, 240, 195,
                           165, 106, 48, 152>>
        /\ (rec.ts = EdgeTimestamp /\ rec.seq = 0) =>
               /\ rec.seeds[3] = <<81, 220, 205, 223, 136, 171>>
               /\ rec.entropy = <<68, 23, 123, 178, 224, 0, 0, 0, 1, 252, 0, 0, 0, 0, 0, 0,
                                  103, 50, 0, 0, 0, 0, 0, 0, 136, 171, 0, 0, 0, 0, 0, 0>>
               /\ rec.key = <<205, 128, 218, 70, 126, 177, 147, 28, 255, 131, 139, 181, 176,
                              241, 153, 192, 126, 52, 141, 249, 41, 106, 86, 216, 153, 31,
                              171, 123, 110, 181, 166, 101>>
    /\ \A n1, n2 \in 1..Len(v_done) :
        (v_done[n1].ts = v_done[n2].ts /\ v_done[n1].seq = v_done[n2].seq)
            => v_done[n1].key = v_done[n2].key

\* the same input derived twice, its first draw being one that rounds up
C12_Witness ==
    /\ Len(v_done) = 2
    /\ v_done[1].ts = EdgeTimestamp /\ v_done[1].seq = 0
    /\ v_done[2].ts = EdgeTimestamp /\ v_done[2].seq = 0
    /\ v_done[1].seeds[1][5] + 256 * v_done[1].seeds[1][6] = 64512


-----------------------------------------------------------------------------
(* The statements of the rounds and the final state update *)

\* the n-th register (n = 1..5) of a lane in the register order of a round,
\* the right lane's names ending in p
Register(order, n, suffix) == <<Lower(order[2 * n - 1])>> \o suffix

\* the nonlinear function a selector names, of the registers x, y and z
FunctionOf(f, x, y, z) ==
    CASE f = "F1" -> <<"(">> \o x \o <<" ", "^", " ">> \o y \o <<" ", "^", " ">> \o z
                     \o <<")">>
      [] f = "F2" -> <<"(", "(">> \o x \o <<" ", "&", " ">> \o y
                     \o <<")", " ", "|", " ", "(", "(", "~">> \o x
                     \o <<")", " ", "&", " ">> \o z \o <<")", ")">>
      [] f = "F3" -> <<"(", "(">> \o x \o <<" ", "|", " ", "(", "~">> \o y
                     \o <<")", ")", " ", "^", " ">> \o z \o <<")">>
      [] f = "F4" -> <<"(", "(">> \o x \o <<" ", "&", " ">> \o z
                     \o <<")", " ", "|", " ", "(">> \o y
                     \o <<" ", "&", " ", "(", "~">> \o z \o <<")", ")", ")">>
      [] f = "F5" -> <<"(">> \o x \o <<" ", "^", " ", "(">> \o y
                     \o <<" ", "|", " ", "(", "~">> \o z \o <<")", ")", ")">>

\* the statement of one lane for one round: the first register takes the
\* function of the second, third and fourth, the message word and the
\* constant, is rotated and takes the fifth; register `rotated` is rotated by 10
LaneStatement(order, suffix, f, word, constant, amount, rotated) ==
    LET R(n) == Register(order, n, suffix)
    IN  <<"    ">> \o R(1) \o <<" += ">> \o FunctionOf(f, R(2), R(3), R(4))
        \o <<" + block[", Str(word), "] + ", constant, "; ">>
        \o R(1) \o <<" = rol(">> \o R(1) \o <<", ", Str(amount), "u) + ">> \o R(5)
        \o <<"; ">> \o R(rotated) \o <<" = rol(">> \o R(rotated) \o <<", 10u);">>

RECURSIVE LinesBefore(_, _)
\* the lines printed before the heading of group k: the header and, per
\* earlier group, a heading, two statements a round and an empty line
LinesBefore(table, k) ==
    IF k = 1 THEN Len(Header)
    ELSE LinesBefore(table, k - 1) + 2 * Len(table[k - 1][6]) + 2

\* every round of a run that ended well gave the two statements of the
\* description, the left one first, and nothing else stands between them
StatementsAsDescribed(run, rotated) ==
    LET table == TableOf(run.table)
    IN  /\ Len(run.out) = LinesBefore(table, Len(table) + 1) + Len(Footer)
        /\ \A k \in 1..Len(table) : \A n \in 1..Len(table[k][6]) :
               LET group == table[k]
                   round == group[6][n]
                   at == LinesBefore(table, k) + 1 + 2 * (n - 1)
               IN  /\ run.out[at + 1] = LaneStatement(round[1], <<>>, group[2], round[2],
                                                      group[3], round[3], rotated)
                   /\ run.out[at + 2] = LaneStatement(round[1], <<"p">>, group[4], round[4],
                                                      group[5], round[5], rotated)

\* C21 as stated: every round gives two statements, left lane then right lane,
\* as described, the register rotated by 10 being the fourth of the round's
\* order; the 80 rounds of the script's table give 160 statements.
C21_RotatesFourthRegister ==
    (Len(g_runs) > 0 /\ g_runs[Len(g_runs)].status = "done") =>
        StatementsAsDescribed(g_runs[Len(g_runs)], 4)

\* C21, amended: the same, the register rotated by 10 being the third of the
\* round's order (the second argument of the nonlinear function); the output
\* for the script's table has 186 lines, 160 of them statements.
C21_RotatesThirdRegister ==
    (Len(g_runs) > 0 /\ g_runs[Len(g_runs)].status = "done") =>
        /\ StatementsAsDescribed(g_runs[Len(g_runs)], 3)
        /\ g_runs[Len(g_runs)].table = "rounds" =>
               /\ Len(g_runs[Len(g_runs)].out) = 186
               /\ Cardinality({n \in 1..186 :
                                  /\ Len(g_runs[Len(g_runs)].out[n]) > 4
                                  /\ \/ g_runs[Len(g_runs)].out[n][3] = " += "
                                     \/ g_runs[Len(g_runs)].out[n][4] = " += "}) = 160

\* the table of the script was generated in full by the run that ended last
C21_Witness ==
    /\ Len(g_runs) > 0
    /\ g_runs[Len(g_runs)].table = "rounds"
    /\ g_runs[Len(g_runs)].status = "done"
    /\ Len(g_runs[Len(g_runs)].out) = 186


\* the names of the left registers, and of the right ones, in the order
\* a, b, c, d, e
LeftRegisters == << <<"a">>, <<"b">>, <<"c">>, <<"d">>, <<"e">> >>
RightRegisters == << <<"a", "p">>, <<"b", "p">>, <<"c", "p">>, <<"d", "p">>, <<"e", "p">> >>

\* C22: the text of a run that ended well closes with the final state update:
\* h0..h4 are read from the state words, and then, for every i in 0..4, state
\* word i is written as h[(i+1) mod 5] + L[(i+2) mod 5] + R[(i+3) mod 5]; no
\* line before the five reads writes a state word.
C22_CyclicRecombination ==
    (Len(g_runs) > 0 /\ g_runs[Len(g_runs)].status = "done") =>
        LET out == g_runs[Len(g_runs)].out
            last == Len(out) - 12
        IN  /\ last >= 0
            /\ \A i \in 0..4 :
                   out[last + 1 + i] = <<"    let ", "h", Str(i), " = (*state)[", Str(i), "];">>
            /\ \A i \in 0..4 :
                   out[last + 7 + i] =
                       <<"    (*state)[", Str(i), "] = ", "h", Str((i + 1) % 5), " + ">>
                       \o LeftRegisters[((i + 2) % 5) + 1] \o <<" + ">>
                       \o RightRegisters[((i + 3) % 5) + 1] \o <<";">>
            /\ out[last + 12] = <<"}">>
            /\ \A n \in 1..(last + 6) : Len(out[n]) > 0 => out[n][1] # "    (*state)["

\* a run that ended well and printed rounds before the state update
C22_Witness ==
    /\ g_pc = "done"
    /\ Len(g_runs) > 0
    /\ g_runs[Len(g_runs)].status = "done"
    /\ Len(g_runs[Len(g_runs)].out) > Len(Header) + 12


-----------------------------------------------------------------------------
(* The table of the rounds *)

\* the message word a statement reads: the piece after " + block["
WordRead(line) == line[(CHOOSE j \in 1..Len(line) : line[j] = " + block[") + 1]

\* C28: in the table of the script every group has 16 rounds, its 16 left
\* message indices are a permutation of 0..15 and so are its 16 right ones,
\* and every rotation amount is in 5..15; the statements generated from it read
\* every message word once per lane and group.
C28_EachWordOncePerLane ==
    g_table = "rounds" =>
        LET table == TableOf(g_table)
        IN  /\ Len(table) = 5
            /\ \A k \in 1..Len(table) :
                   LET round_data == table[k][6]
                   IN  /\ Len(round_data) = 16
                       /\ {round_data[n][2] : n \in 1..Len(round_data)} = 0..15
                       /\ {round_data[n][4] : n \in 1..Len(round_data)} = 0..15
                       /\ \A n \in 1..Len(round_data) :
                              round_data[n][3] \in 5..15 /\ round_data[n][5] \in 5..15
            /\ g_pc = "done" =>
                   \A k \in 1..5 :
                       /\ {WordRead(g_out[LinesBefore(table, k) + 2 * n]) : n \in 1..16}
                              = {Str(w) : w \in 0..15}
                       /\ {WordRead(g_out[LinesBefore(table, k) + 2 * n + 1]) : n \in 1..16}
                              = {Str(w) : w \in 0..15}

\* the table of the script has been generated to its end
C28_Witness ==
    /\ g_table = "rounds"
    /\ g_pc = "done"
    /\ Len(g_out) = 186

\* A,B,C,D,E rotated right by r positions, as the text of the table
RotatedOrder(r) ==
    [j \in 1..9 |-> IF j % 2 = 0 THEN ","
                    ELSE <<"A", "B", "C", "D", "E">>[((((j + 1) \div 2) - 1 + 5 - r) % 5) + 1]]

RECURSIVE RoundsBefore(_, _)
\* the rounds of the groups before group k
RoundsBefore(table, k) ==
    IF k = 1 THEN 0 ELSE RoundsBefore(table, k - 1) + Len(table[k - 1][6])

\* C29: the rounds of the script's table being numbered 0..79 through the five
\* groups, the register order of round n is A,B,C,D,E rotated right by n mod 5
\* positions, also across the group boundaries; the two statements generated
\* for round n write the first register of that order.
C29_OrderRotatesByRound ==
    g_table = "rounds" =>
        LET table == TableOf(g_table)
        IN  /\ RoundsBefore(table, Len(table) + 1) = 80
            /\ \A k \in 1..Len(table) : \A n \in 1..Len(table[k][6]) :
                   LET number == RoundsBefore(table, k) + n - 1
                       first == Lower(RotatedOrder(number % 5)[1])
                   IN  /\ table[k][6][n][1] = RotatedOrder(number % 5)
                       /\ (g_pc = "rounds" /\ g_k > k) =>
                              /\ SubSeq(g_out[LinesBefore(table, k) + 2 * n], 1, 3)
                                     = <<"    ", first, " += ">>
                              /\ SubSeq(g_out[LinesBefore(table, k) + 2 * n + 1], 1, 4)
                                     = <<"    ", first, "p", " += ">>

\* the second group of the script's table has been generated: a group boundary
\* lies behind
C29_Witness ==
    /\ g_table = "rounds"
    /\ g_pc = "rounds"
    /\ g_k = 3


-----------------------------------------------------------------------------
(* The counters of the parity run *)

\* C30: at every point of the parity run passed + failed is the number of
\* vectors visited that name 'randstorm' and an engine among v8, java, ie and
\* safari-win; such a vector adds one to exactly one of the two counters, any
\* other vector changes neither, and failed never exceeds 6.
C30_CountersFollowVectors ==
    /\ [](passed + failed = eligible /\ failed <= 6 /\ eligible <= idx)
    /\ [][/\ eligible' = eligible + 1 =>
                \/ passed' = passed + 1 /\ failed' = failed
                \/ passed' = passed /\ failed' = failed + 1
          /\ eligible' = eligible => (passed' = passed /\ failed' = failed)
          /\ eligible' \in {eligible, eligible + 1}]_vars

\* six mismatches were counted, a vector passed and a vector was skipped
C30_Witness ==
    /\ failed = 6
    /\ passed > 0
    /\ idx > eligible


-----------------------------------------------------------------------------
(* The registers of the V8 generator *)

\* C26: once a V8 generator is seeded, neither register is zero, whatever the
\* seed and however many calls were made; the sum 18000 * (s1 & 0xFFFF) +
\* (s1 >> 16), and the one with 30903 for s2, stays below 2^32 (in fact below
\* 2^31, also for the largest halves 0xFFFF), so that the register holds the
\* sum itself and the mask discards nothing.
C26_RegistersNeverZero ==
    (p_pc = "ready" /\ p_engine = "v8") =>
        /\ ~IsZero(p_regs.s1)
        /\ ~IsZero(p_regs.s2)
        /\ 18000 * (p_regs.s1[1] + 256 * p_regs.s1[2])
               + (p_regs.s1[3] + 256 * p_regs.s1[4]) <= 2147483647
        /\ 30903 * (p_regs.s2[1] + 256 * p_regs.s2[2])
               + (p_regs.s2[3] + 256 * p_regs.s2[4]) <= 2147483647
        /\ 18000 * 65535 + 65535 <= 2147483647
        /\ 30903 * 65535 + 65535 <= 2147483647
        /\ p_outs # <<>> =>
               /\ (p_regs.s1[1] + 256 * p_regs.s1[2]) + 65536 * (p_regs.s1[3] + 256 * p_regs.s1[4])
                      = 18000 * (p_prev.s1[1] + 256 * p_prev.s1[2])
                            + (p_prev.s1[3] + 256 * p_prev.s1[4])
               /\ (p_regs.s2[1] + 256 * p_regs.s2[2]) + 65536 * (p_regs.s2[3] + 256 * p_regs.s2[4])
                      = 30903 * (p_prev.s2[1] + 256 * p_prev.s2[2])
                            + (p_prev.s2[3] + 256 * p_prev.s2[4])

\* a V8 generator seeded with zero has made all its calls
C26_Witness ==
    /\ p_pc = "ready"
    /\ p_engine = "v8"
    /\ IsZero(p_seed)
    /\ Len(p_outs) = MaxSteps


-----------------------------------------------------------------------------
(* The state table of the stream cipher *)

\* C27: once the cipher is built from a non-empty key, and after any number of
\* next_byte calls, its table holds every value of 0..255 exactly once, i and
\* j are in 0..255 and every byte returned is in 0..255.
C27_TableIsPermutation ==
    k_pc = "ready" =>
        /\ Len(k_s) = 256
        /\ {k_s[n] : n \in 1..Len(k_s)} = 0..255
        /\ k_i \in 0..255
        /\ k_j \in 0..255
        /\ k_i = Len(k_stream) % 256
        /\ \A n \in 1..Len(k_stream) : k_stream[n] \in 0..255
        /\ (k_key = <<75, 101, 121>> /\ Len(k_stream) >= 10) =>
               SubSeq(k_stream, 1, 10) = <<235, 159, 119, 129, 183, 52, 202, 114, 167, 25>>
        /\ (k_key = <<1, 2, 3, 4, 5>> /\ Len(k_stream) = 260) =>
               /\ SubSeq(k_stream, 256, 260) = <<174, 28, 252, 246, 43>>
               /\ k_j = 140

\* i has gone round the table once and come back to its start
C27_Witness ==
    /\ k_pc = "ready"
    /\ Len(k_key) = 5
    /\ Len(k_stream) > 256
    /\ k_i = 1

-----------------------------------------------------------------------------
(* How the balance monitor ends *)

\* what holds of the monitor in every state
MonitorBounded ==
    /\ m_checks \in 0..MAX_CHECKS
    /\ m_writes \in 0..1
    /\ m_pc = "returned" => m_result \in {<<0>>, <<1>>}
    \* while the loop runs, no check so far has found the amount
    /\ m_pc = "loop" =>
          /\ ~m_funded /\ m_writes = 0 /\ m_result = <<>>
          /\ m_checks > 0 => (m_balance = <<>> \/ m_balance[1] < EXPECTED_AMOUNT_SATS)
    \* 0: the check just made found the amount, the file was written once
    /\ m_result = <<0>> =>
          /\ m_balance # <<>> /\ m_balance[1] >= EXPECTED_AMOUNT_SATS
          /\ m_checks >= 1 /\ m_writes = 1
          /\ m_sleeps = m_checks - 1
    \* 1: sixty checks, none of which found the amount, and no file
    /\ m_result = <<1>> =>
          /\ m_checks = MAX_CHECKS /\ m_writes = 0 /\ ~m_funded
          /\ m_balance = <<>> \/ m_balance[1] < EXPECTED_AMOUNT_SATS
          /\ m_sleeps = MAX_CHECKS - 1
    \* a sleep follows a check that is not the last one
    /\ m_slept = m_sleeps /\ m_slept < MAX_CHECKS

\* C23: the monitor ends in every behaviour: main makes at most MAX_CHECKS (60)
\* checks, returns 0 at the first check that finds EXPECTED_AMOUNT_SATS or more,
\* having written the status file once and checking no more, returns 1 after
\* exactly 60 checks otherwise, does not sleep after the last check, and takes
\* neither None nor a smaller balance for the funding.
C23_MonitorEnds ==
    /\ []MonitorBounded
    /\ [][/\ m_pc = "returned" => UNCHANGED monitor_vars
          /\ m_checks' \in {m_checks, m_checks + 1}
          /\ m_sleeps' > m_sleeps => (m_checks' = m_checks + 1 /\ m_pc' = "loop")]_vars
    /\ <>(m_pc = "returned")

\* sixty checks were made, the last against a balance one short of the amount
C23_Witness ==
    /\ m_result = <<1>>
    /\ m_checks = MAX_CHECKS
    /\ m_balance = <<EXPECTED_AMOUNT_SATS - 1>>
    /\ m_sleeps = MAX_CHECKS - 1

-----------------------------------------------------------------------------
(* The twelve word indices *)

\* bit n of the entropy, counted from the most significant
BitFromTop(entropy, n) == (entropy[(n \div 8) + 1] \div (2 ^ (7 - (n % 8)))) % 2

\* the bits first..first + width - 1 from the top, as a number
RECURSIVE GroupFromTop(_, _, _)
GroupFromTop(entropy, first, width) ==
    IF width = 0 THEN 0
    ELSE 2 * GroupFromTop(entropy, first, width - 1) + BitFromTop(entropy, first + width - 1)

\* the indices taken so far are the 11-bit groups, and the checksum is the
\* top nibble of the hash
IndicesAsDescribed ==
    /\ \A i \in 1..Len(e_indices) :
          /\ e_indices[i] \in 0..2047
          /\ i <= 11 => e_indices[i] = GroupFromTop(e_entropy, 11 * (i - 1), 11)
    /\ e_pc # "idle" => e_checksum \in 0..15
    /\ (e_pc # "idle" /\ e_entropy = ScriptEntropy) =>
          /\ e_checksum = 1
          /\ \A i \in 1..Len(e_indices) :
                i <= 11 => e_indices[i] = <<1759, 701, 1943, 810, 1702, 716, 1345, 1944,
                                            1793, 2, 1993>>[i]
    /\ e_pc = "returned" =>
          /\ Len(e_indices) = 12
          /\ e_indices[12] = 16 * GroupFromTop(e_entropy, 121, 7) + e_checksum

\* C24: for every 128-bit entropy the function gets twelve word indices in
\* 0..2047, the first eleven being the 11-bit groups of the entropy from the
\* top and the twelfth the low 7 bits of the entropy followed by the 4-bit
\* checksum, and it ends without an error.
C24_TwelveIndices ==
    /\ IndicesAsDescribed
    /\ e_error = ""
    /\ e_pc # "raised"

-----------------------------------------------------------------------------
(* The verdict of the comparison *)

\* every GPU address is the reference address at its place, and there are no
\* more of them than reference entries
AllAgree ==
    /\ Len(x_gpu_addresses) <= Len(x_ref_addresses)
    /\ \A i \in 1..Len(x_gpu_addresses) :
          i <= Len(x_ref_addresses) => x_gpu_addresses[i] = x_ref_addresses[i].address

\* what the function returns when it returns after reading both files
VerdictAsDescribed ==
    (x_pc = "returned" /\ x_error = "") => x_result = <<AllAgree>>

\* C25: for every pair of readable files, a GPU file without an ADDRESS line
\* among them, the function returns a boolean: True when every GPU address
\* equals the reference address at the same place and there are no more GPU
\* addresses than reference entries, False otherwise.
C25_ReturnsVerdict ==
    /\ VerdictAsDescribed
    /\ x_pc # "raised"
    /\ x_pc = "returned" => x_result \in {<<TRUE>>, <<FALSE>>}

=============================================================================
